---- MODULE Spec2Model ----
(***************************************************************************)
(* A model of the jester-mcp server (src/src/standalone_mcp_server.py):    *)
(* the Podman execution engine (PodmanCodeExecutor), the slash-command     *)
(* router (IntegratedSlashCommands), the tool surface and the stdin loop   *)
(* (EnhancedMCPServer, main); and of the protocol inspector                *)
(* (src/src/mcp_inspector.py): MCPInspector and the routes of              *)
(* DevelopmentServer that change it.                                       *)
(*                                                                         *)
(* Coroutines are cut at their suspension points: one action is the code   *)
(* that runs between two awaits.  The spawn of a child process and the     *)
(* wait for its exit (create_subprocess_exec, then communicate) are one    *)
(* step, taken when the child has ended; the task touches no shared state  *)
(* between the two.  What the container runtime and the child processes    *)
(* answer is chosen by the environment.                                    *)
(***************************************************************************)
EXTENDS Naturals, Integers, Sequences, FiniteSets, TLC

VARIABLES
    podman_available,   \* PodmanCodeExecutor.podman_available (the probe's answer)
    containers,         \* PodmanCodeExecutor.containers: session id -> record
    runtime,            \* the session-container names the runtime holds
    tasks,              \* the coroutines calling the engine: task -> frame
    lastOp,             \* the engine operation that returned last
    stats,              \* IntegratedSlashCommands.stats
    history,            \* IntegratedSlashCommands.history
    stdin,              \* the input lines main() has not read yet
    stdout,             \* the response lines main() has printed
    request,            \* main(): the request being served, or NoRequest
    mainpc,             \* main(): "running" in the loop over stdin, then "exited"
    files,              \* the files create_file has written
    messages,           \* MCPInspector.messages
    is_recording,       \* MCPInspector.is_recording
    performance_metrics,\* MCPInspector.performance_metrics
    log_calls,          \* history: the calls of log_message, in call order
    cleared_at,         \* history: how many calls preceded the last clear
    connected_clients,  \* MCPInspector.connected_clients
    sent,               \* history: the envelopes each websocket was sent
    wrapped,            \* the call of a wrapped handler that is under way
    passed              \* history: what the last wrapped call gave its caller

engineVars == <<podman_available, containers, runtime, tasks, lastOp>>
routerVars == <<stats, history>>
mainVars == <<stdin, stdout, request, mainpc, files>>
inspectorVars == <<messages, is_recording, performance_metrics, log_calls, cleared_at,
                   connected_clients, sent, wrapped, passed>>
otherVars == <<stats, history, stdin, stdout, request, mainpc, files, inspectorVars>>
vars == <<podman_available, containers, runtime, tasks, lastOp,
          stats, history, stdin, stdout, request, mainpc, files, inspectorVars>>

(***************************************************************************)
(* Bounds of the model.                                                    *)
(***************************************************************************)
\* How many input lines main() is given.
MaxLines == 2

\* How many times log_message is called.
MaxLogCalls == 3

\* The coroutines that may call the engine: main() runs one at a time
\* (asyncio.run per request); two model callers that share one engine.
MainTask == "t1"
Tasks == {"t1", "t2"}

\* python and bash have an image and a subprocess fallback, ruby has neither.
Languages == {"python", "bash", "ruby"}

\* The source texts handed to the engine.
Codes == {"print(1)", "import os"}

\* The security_level values a caller passes; "bogus" is none of the three.
Tiers == {"isolation", "persistent", "development", "bogus"}

\* What podman stats reports, already parsed to MiB.
MemSamples == {0, 45}

None == "None"

(***************************************************************************)
(* Python's string operations, on TLA+ strings.                            *)
(***************************************************************************)
\* s.startswith(p)
StartsWith(s, p) == Len(s) >= Len(p) /\ SubSeq(s, 1, Len(p)) = p

\* p in s
Contains(s, p) ==
    \E i \in 1..(Len(s) + 1 - Len(p)) : SubSeq(s, i, i + Len(p) - 1) = p

IsSpace(c) == c \in {" ", "\n", "\t"}

\* s.strip()
RECURSIVE Strip(_)
Strip(s) ==
    IF s = "" THEN ""
    ELSE IF IsSpace(SubSeq(s, 1, 1)) THEN Strip(SubSeq(s, 2, Len(s)))
    ELSE IF IsSpace(SubSeq(s, Len(s), Len(s))) THEN Strip(SubSeq(s, 1, Len(s) - 1))
    ELSE s

UpperCase == "ABCDEFGHIJKLMNOPQRSTUVWXYZ"
LowerCase == "abcdefghijklmnopqrstuvwxyz"

LowerChar(c) ==
    IF \E i \in 1..26 : SubSeq(UpperCase, i, i) = c
    THEN LET i == CHOOSE i \in 1..26 : SubSeq(UpperCase, i, i) = c
         IN  SubSeq(LowerCase, i, i)
    ELSE c

\* s.lower()
RECURSIVE Lower(_)
Lower(s) ==
    IF s = "" THEN ""
    ELSE LowerChar(SubSeq(s, 1, 1)) \o Lower(SubSeq(s, 2, Len(s)))

\* s.split(): the words between runs of white space
RECURSIVE SplitFrom(_, _, _)
SplitFrom(s, i, word) ==
    IF i > Len(s) THEN (IF word = "" THEN <<>> ELSE <<word>>)
    ELSE LET c == SubSeq(s, i, i)
         IN  IF IsSpace(c)
             THEN (IF word = "" THEN <<>> ELSE <<word>>) \o SplitFrom(s, i + 1, "")
             ELSE SplitFrom(s, i + 1, word \o c)

Split(s) == SplitFrom(s, 1, "")

\* " ".join(words)
RECURSIVE Join(_)
Join(words) ==
    IF words = <<>> THEN ""
    ELSE IF Len(words) = 1 THEN words[1]
    ELSE words[1] \o " " \o Join(Tail(words))

\* Python's `"Error:" in text`.
HasErrorColon(text) == Contains(text, "Error:")

\* What a child process of the fallback path wrote.
Stdouts == {"", "4\n", "Error: disk full\n"}
Stderrs == {"", "ZeroDivisionError: division by zero\n"}

(***************************************************************************)
(* PodmanCodeExecutor: tables.                                             *)
(***************************************************************************)
base_images ==
    [l \in {"python", "javascript", "bash", "rust", "go"} |->
        CASE l = "python" -> "docker.io/python:3.11-alpine"
          [] l = "javascript" -> "docker.io/node:18-alpine"
          [] l = "bash" -> "docker.io/alpine:latest"
          [] l = "rust" -> "docker.io/rust:1.70-alpine"
          [] l = "go" -> "docker.io/golang:1.20-alpine"]

\* session_id = f"claude-session-{language}"
SessionId(language) == "claude-session-" \o language

\* container_name of the one-shot tiers, without its random suffix.
ContainerName(mode, language) ==
    IF mode = "development" THEN "claude-dev-" \o language
    ELSE "claude-jester-" \o language

SessionIds == {SessionId(l) : l \in Languages}

(***************************************************************************)
(* ExecutionResult and the places that build one.                          *)
(***************************************************************************)
NoResult == [method |-> "none"]

\* The result of a container run that ended by itself.
PodmanResult(rc, mem, cid, level) ==
    [success |-> (rc = 0), output |-> "<stdout>", error |-> "<stderr>",
     memory_usage |-> mem, container_id |-> cid,
     security_level |-> level, method |-> "podman"]

\* A timeout result that reports success.
TimeoutResultSucceeds(level) ==
    [success |-> TRUE, output |-> "", error |-> "Execution timed out",
     memory_usage |-> 0, container_id |-> None,
     security_level |-> level, method |-> "podman_timeout"]

\* except asyncio.TimeoutError
TimeoutResult(level) ==
    [success |-> FALSE, output |-> "", error |-> "Execution timed out",
     memory_usage |-> 0, container_id |-> None,
     security_level |-> level, method |-> "podman_timeout"]

\* An error result that reports success.
TierErrorResultSucceeds(level) ==
    [success |-> TRUE, output |-> "",
     error |-> "Container execution failed",
     memory_usage |-> 0, container_id |-> None,
     security_level |-> level, method |-> "podman_error"]

\* except Exception in _execute_isolated and _execute_development
TierErrorResult(level) ==
    [success |-> FALSE, output |-> "",
     error |-> "Container execution failed",
     memory_usage |-> 0, container_id |-> None,
     security_level |-> level, method |-> "podman_error"]

\* except Exception in execute_code; security_level is the dataclass default
EngineErrorResult(why) ==
    [success |-> FALSE, output |-> "",
     error |-> "Container execution failed: " \o why,
     memory_usage |-> 0, container_id |-> None,
     security_level |-> "container", method |-> "podman_error"]

\* A fallback result built without the security_level keyword.
FallbackResultUntagged(text) ==
    [success |-> ~HasErrorColon(text),
     output |-> IF ~HasErrorColon(text) THEN text ELSE "",
     error |-> IF HasErrorColon(text) THEN text ELSE "",
     memory_usage |-> 0, container_id |-> None,
     security_level |-> "container", method |-> "fallback"]

\* _fallback_execution, from the text the _sync_execute_* helper returned
FallbackResult(text) ==
    [success |-> ~HasErrorColon(text),
     output |-> IF ~HasErrorColon(text) THEN text ELSE "",
     error |-> IF HasErrorColon(text) THEN text ELSE "",
     memory_usage |-> 0, container_id |-> None,
     security_level |-> "subprocess", method |-> "fallback"]

(***************************************************************************)
(* The subprocess fallback.                                                *)
(***************************************************************************)
\* What subprocess.run did: the child exited, the 30 s deadline expired, or
\* the temp file or the spawn raised.
ProcOutcomes ==
    { [kind |-> "exited", rc |-> rc, stdout |-> so, stderr |-> se] :
        rc \in {0, 1}, so \in Stdouts, se \in Stderrs }
    \cup { [kind |-> k, rc |-> -1, stdout |-> "", stderr |-> ""] :
             k \in {"timeout", "raised"} }

\* The text assembled from the captured streams; `both` is the label of
\* stderr when stdout came first, `quiet` the text of an empty capture.
FormatCapture(o, both, quiet) ==
    LET out == IF o.stdout # "" THEN "Output:\n" \o Strip(o.stdout) ELSE ""
        all == IF o.stderr = "" THEN out
               ELSE IF out # "" THEN out \o both \o Strip(o.stderr)
               ELSE "Errors:\n" \o Strip(o.stderr)
    IN  IF all # "" THEN all ELSE quiet

sync_execute_python(o) ==
    CASE o.kind = "timeout" -> "Error: Code execution timed out (30 seconds)"
      [] o.kind = "raised" ->
            "Error executing Python code: [Errno 12] Cannot allocate memory"
      [] OTHER -> FormatCapture(o, "\n\nErrors/Warnings:\n",
                                "Code executed successfully (no output)")

sync_execute_bash(o) ==
    CASE o.kind = "timeout" -> "Error: Command execution timed out (30 seconds)"
      [] o.kind = "raised" ->
            "Error executing bash command: [Errno 12] Cannot allocate memory"
      [] OTHER -> FormatCapture(o, "\n\nErrors:\n",
                                "Command executed successfully (no output)")

\* The language dispatch of _fallback_execution.
sync_execute_javascript(o) ==
    CASE o.kind = "timeout" -> "Error: Code execution timed out (30 seconds)"
      [] o.kind = "raised" ->
            "Error executing JavaScript code: [Errno 12] Cannot allocate memory"
      [] OTHER -> FormatCapture(o, "\n\nErrors:\n",
                                "Code executed successfully (no output)")

fallback_text(language, o) ==
    CASE language = "python" -> sync_execute_python(o)
      [] language \in {"javascript", "js"} -> sync_execute_javascript(o)
      [] language = "bash" -> sync_execute_bash(o)
      [] OTHER -> "Unsupported language: " \o language

\* History of the call, kept in the frame (fate, failedAt, isoRuns, snap (the
\* sessions registered when the call began), kills, run_cmd and session_cmd
\* (the options of the one-shot and of the session container the call
\* started)): the fate of the executed process as the engine saw it: kind is "exited"
\* (with its return code), "timeout", "raised" (a spawn or adapter failure)
\* or "unsupported".
Fate(kind, rc) == [kind |-> kind, rc |-> rc]
NoFate == Fate("none", -1)

fallback_fate(language, o) ==
    IF language \in {"python", "javascript", "js", "bash"} THEN Fate(o.kind, o.rc)
    ELSE Fate("unsupported", -1)

(***************************************************************************)
(* The frame of a coroutine that is inside an engine call.                 *)
(***************************************************************************)
IdleFrame ==
    [pc |-> "idle", op |-> "none", code |-> "", language |-> "", tier |-> "",
     mode |-> "", downgraded |-> FALSE, failedAt |-> "none", isoRuns |-> 0,
     fate |-> NoFate, arg |-> None, snap |-> {}, pending |-> {}, cur |-> None,
     kills |-> {}, run_cmd |-> {}, session_cmd |-> {}, result |-> NoResult]

\* return `res` to the caller
Done(f, res) == [f EXCEPT !.pc = "done", !.result = res]

EmptyRegistry == [s \in {} |-> None]

\* self.containers[session_id] = {...}
RegistryPut(c, sid, language) ==
    [s \in DOMAIN c \cup {sid} |->
        IF s = sid THEN [language |-> language, container_id |-> "cid-" \o sid]
        ELSE c[s]]

\* A delete that drops the whole registry.
RegistryDelAll(c, sid) == EmptyRegistry

\* del self.containers[session_id]
RegistryDel(c, sid) == [s \in DOMAIN c \ {sid} |-> c[s]]

\* A cleanup that forgets to clear the registry.
RegistryClearKeeps(c) == c

\* self.containers.clear()
RegistryClear(c) == EmptyRegistry

\* A cleanup loop that kills no session.
KillTargetsNone(c) == {}

\* list(self.containers.keys()): the sessions cleanup_session() will kill
KillTargets(c) == DOMAIN c

\* The options of the `podman run` of _execute_isolated, with the values of
\* _default_config, without the name and the image.
isolated_podman_cmd ==
    {"--rm", "--network none", "--memory 128m", "--cpus 0.5", "--read-only",
     "--tmpfs /tmp:rw,size=64m", "--security-opt no-new-privileges",
     "--cap-drop ALL", "--user nobody", "-v code_file:/code/code_file:ro"}

\* The options of the `podman run` of _execute_development.
development_podman_cmd ==
    {"--rm", "--memory 512m", "--cpus 1.0", "--tmpfs /tmp:rw,size=256m",
     "-v code_file:/code/code_file:ro"}

\* The options of the `podman run -d` of _create_session_container.
session_podman_cmd ==
    {"-d", "--network none", "--memory 128m", "--cpus 0.5",
     "--tmpfs /tmp:rw,size=64m", "--security-opt no-new-privileges",
     "--cap-drop ALL", "--user nobody"}

(***************************************************************************)
(* _execute_isolated and _execute_development, up to the first await.      *)
(* `fsok` says whether the temp directory and the code file were written.  *)
(***************************************************************************)
execute_isolated(f, fsok) ==
    LET g == [f EXCEPT !.mode = "isolation", !.isoRuns = @ + 1]
    IN  IF fsok /\ f.language \in DOMAIN base_images
        THEN [g EXCEPT !.pc = "tier_run", !.run_cmd = isolated_podman_cmd]
        ELSE Done([g EXCEPT !.fate = Fate("raised", -1)],
                  TierErrorResult("isolation"))

execute_development(f, fsok) ==
    LET g == [f EXCEPT !.mode = "development"]
    IN  IF fsok /\ f.language \in DOMAIN base_images
        THEN [g EXCEPT !.pc = "tier_run", !.run_cmd = development_podman_cmd]
        ELSE Done([g EXCEPT !.fate = Fate("raised", -1)],
                  TierErrorResult("development"))

\* A lookup that misses every time.
execute_persistent_anew(f, c) ==
    IF f.language \in DOMAIN base_images
    THEN [f EXCEPT !.pc = "per_create"]
    ELSE Done([f EXCEPT !.failedAt = "image", !.fate = Fate("raised", -1)],
              EngineErrorResult("KeyError"))

\* _execute_persistent up to the first await: the lookup, and the start of
\* _create_session_container on a miss (outside the try block).
execute_persistent(f, c) ==
    IF SessionId(f.language) \in DOMAIN c
    THEN [f EXCEPT !.pc = "per_write"]
    ELSE IF f.language \in DOMAIN base_images
    THEN [f EXCEPT !.pc = "per_create"]
    ELSE Done([f EXCEPT !.failedAt = "image", !.fate = Fate("raised", -1)],
              EngineErrorResult("KeyError"))

\* except Exception in _execute_persistent: fall back to isolated execution
persistent_failed(f, where, fsok) ==
    execute_isolated([f EXCEPT !.failedAt = where, !.downgraded = TRUE], fsok)

\* A dispatch that runs an unknown tier in the development tier.
strategy_permissive(f, fsok, c) ==
    CASE f.tier = "isolation" -> execute_isolated(f, fsok)
      [] f.tier = "persistent" -> execute_persistent(f, c)
      [] OTHER -> execute_development(f, fsok)

\* "Choose execution strategy based on security level"
strategy(f, fsok, c) ==
    CASE f.tier = "isolation" -> execute_isolated(f, fsok)
      [] f.tier = "persistent" -> execute_persistent(f, c)
      [] f.tier = "development" -> execute_development(f, fsok)
      [] OTHER -> execute_isolated(f, fsok)

(***************************************************************************)
(* execute_code: the call, up to the first await.                          *)
(***************************************************************************)
execute_code(t, code, language, security_level) ==
    /\ tasks[t].pc = "idle"
    /\ LET f == [IdleFrame EXCEPT !.op = "execute", !.code = code,
                                  !.language = language, !.tier = security_level,
                                  !.snap = DOMAIN containers]
       IN  IF ~podman_available
           THEN \E o \in ProcOutcomes :
                   tasks' = [tasks EXCEPT ![t] =
                       Done([f EXCEPT !.fate = fallback_fate(language, o)],
                            FallbackResult(fallback_text(language, o)))]
           ELSE \E fsok \in BOOLEAN :
                   tasks' = [tasks EXCEPT ![t] = strategy(f, fsok, containers)]
    /\ UNCHANGED <<podman_available, containers, runtime, lastOp>>

\* The one-shot container ran: `podman run --rm` ended, raised, or the
\* deadline of wait_for expired (then the kill is issued).
TierRun(t) ==
    /\ tasks[t].pc = "tier_run"
    /\ LET f == tasks[t]
       IN  \/ tasks' = [tasks EXCEPT ![t] =
                  Done([f EXCEPT !.fate = Fate("raised", -1)], TierErrorResult(f.mode))]
           \/ \E rc \in {0, 1} :
                  tasks' = [tasks EXCEPT ![t] =
                      [f EXCEPT !.pc = "tier_stats", !.fate = Fate("exited", rc)]]
           \/ tasks' = [tasks EXCEPT ![t] =
                  [f EXCEPT !.pc = "tier_kill", !.fate = Fate("timeout", -1),
                            !.kills = @ \cup {ContainerName(f.mode, f.language)}]]
    /\ UNCHANGED <<podman_available, containers, runtime, lastOp>>
    /\ UNCHANGED otherVars

\* _get_memory_usage answered; the result is assembled.
TierStats(t) ==
    /\ tasks[t].pc = "tier_stats"
    /\ LET f == tasks[t]
       IN  \E mem \in MemSamples :
              tasks' = [tasks EXCEPT ![t] =
                  Done(f, PodmanResult(f.fate.rc, mem,
                                       ContainerName(f.mode, f.language), f.mode))]
    /\ UNCHANGED <<podman_available, containers, runtime, lastOp>>
    /\ UNCHANGED otherVars

\* _kill_container returned after a timeout.
TierKill(t) ==
    /\ tasks[t].pc = "tier_kill"
    /\ tasks' = [tasks EXCEPT ![t] = Done(@, TimeoutResult(@.mode))]
    /\ UNCHANGED <<podman_available, containers, runtime, lastOp>>
    /\ UNCHANGED otherVars

(***************************************************************************)
(* The persistent tier.  `podman run -d --name <session>` is refused by    *)
(* the runtime while a container of that name exists; `podman exec` needs  *)
(* the container to exist.                                                 *)
(***************************************************************************)
\* _create_session_container: the detached container was started, or the
\* spawn raised, or podman returned non-zero.  Any failure propagates to
\* execute_code, which turns it into an error result.
PerCreate(t) ==
    /\ tasks[t].pc = "per_create"
    /\ LET f == tasks[t]
           sid == SessionId(f.language)
           bad == [f EXCEPT !.failedAt = "create", !.fate = Fate("raised", -1)]
       IN  \/ /\ tasks' = [tasks EXCEPT ![t] =
                     Done(bad, EngineErrorResult("spawn failed"))]
              /\ UNCHANGED <<containers, runtime>>
           \/ /\ tasks' = [tasks EXCEPT ![t] =
                     Done(bad, EngineErrorResult(
                         IF sid \in runtime THEN "name in use" ELSE "run failed"))]
              /\ UNCHANGED <<containers, runtime>>
           \/ /\ sid \notin runtime
              /\ runtime' = runtime \cup {sid}
              /\ containers' = RegistryPut(containers, sid, f.language)
              /\ tasks' = [tasks EXCEPT ![t] =
                     [f EXCEPT !.pc = "per_write", !.session_cmd = session_podman_cmd]]
    /\ UNCHANGED <<podman_available, lastOp>>
    /\ UNCHANGED otherVars

\* The code was written into the session container with `cat > file`, or
\* the exec raised or returned non-zero.
PerWrite(t) ==
    /\ tasks[t].pc = "per_write"
    /\ LET f == tasks[t]
       IN  \/ /\ SessionId(f.language) \in runtime
              /\ tasks' = [tasks EXCEPT ![t] = [f EXCEPT !.pc = "per_run"]]
           \/ \E fsok \in BOOLEAN :
                 tasks' = [tasks EXCEPT ![t] = persistent_failed(f, "write", fsok)]
    /\ UNCHANGED <<podman_available, containers, runtime, lastOp>>
    /\ UNCHANGED otherVars

\* The code ran in the session container: the exec ended, raised, or the
\* deadline of wait_for expired.
PerRun(t) ==
    /\ tasks[t].pc = "per_run"
    /\ LET f == tasks[t]
       IN  \/ \E rc \in {0, 1} :
                 /\ rc = 0 => SessionId(f.language) \in runtime
                 /\ tasks' = [tasks EXCEPT ![t] =
                        [f EXCEPT !.pc = "per_stats", !.fate = Fate("exited", rc)]]
           \/ tasks' = [tasks EXCEPT ![t] =
                  Done([f EXCEPT !.fate = Fate("timeout", -1)],
                       TimeoutResult("persistent"))]
           \/ \E fsok \in BOOLEAN :
                 tasks' = [tasks EXCEPT ![t] = persistent_failed(f, "run", fsok)]
    /\ UNCHANGED <<podman_available, containers, runtime, lastOp>>
    /\ UNCHANGED otherVars

PerStats(t) ==
    /\ tasks[t].pc = "per_stats"
    /\ LET f == tasks[t]
       IN  \E mem \in MemSamples :
              tasks' = [tasks EXCEPT ![t] =
                  Done(f, PodmanResult(f.fate.rc, mem,
                                       SessionId(f.language), "persistent"))]
    /\ UNCHANGED <<podman_available, containers, runtime, lastOp>>
    /\ UNCHANGED otherVars

(***************************************************************************)
(* cleanup_session.  _kill_container spawns `podman kill` and swallows a   *)
(* failure of the spawn; `killed` says whether the kill took effect.       *)
(***************************************************************************)
\* The call, up to the first await.
cleanup_session(t, session_id) ==
    /\ tasks[t].pc = "idle"
    /\ LET f == [IdleFrame EXCEPT !.op = "cleanup", !.arg = session_id,
                                  !.snap = DOMAIN containers]
           todo == KillTargets(containers)
       IN  IF session_id # None /\ session_id # ""
           THEN /\ tasks' = [tasks EXCEPT ![t] =
                       IF session_id \in DOMAIN containers
                       THEN [f EXCEPT !.pc = "cl_del", !.cur = session_id,
                                      !.kills = {session_id}]
                       ELSE Done(f, NoResult)]
                /\ UNCHANGED containers
           ELSE IF todo = {}
           THEN /\ tasks' = [tasks EXCEPT ![t] = Done(f, NoResult)]
                /\ containers' = RegistryClear(containers)
           ELSE /\ \E s \in todo :
                       tasks' = [tasks EXCEPT ![t] =
                           [f EXCEPT !.pc = "cl_kill", !.pending = todo,
                                     !.cur = s, !.kills = {s}]]
                /\ UNCHANGED containers
    /\ UNCHANGED <<podman_available, runtime, lastOp>>

\* A kill of the loop returned: issue the next one, or clear the registry.
CleanupKill(t) ==
    /\ tasks[t].pc = "cl_kill"
    /\ LET f == tasks[t]
           rest == f.pending \ {f.cur}
       IN  /\ \E killed \in BOOLEAN :
                 runtime' = IF killed THEN runtime \ {f.cur} ELSE runtime
           /\ IF rest = {}
              THEN /\ tasks' = [tasks EXCEPT ![t] =
                          Done([f EXCEPT !.pending = {}], NoResult)]
                   /\ containers' = RegistryClear(containers)
              ELSE /\ \E s \in rest :
                          tasks' = [tasks EXCEPT ![t] =
                              [f EXCEPT !.pending = rest, !.cur = s,
                                        !.kills = @ \cup {s}]]
                   /\ UNCHANGED containers
    /\ UNCHANGED <<podman_available, lastOp>>
    /\ UNCHANGED otherVars

\* The kill of the named session returned: del self.containers[session_id],
\* a KeyError when another caller removed the entry meanwhile.
CleanupDel(t) ==
    /\ tasks[t].pc = "cl_del"
    /\ LET f == tasks[t]
       IN  /\ \E killed \in BOOLEAN :
                 runtime' = IF killed THEN runtime \ {f.cur} ELSE runtime
           /\ IF f.cur \in DOMAIN containers
              THEN /\ containers' = RegistryDel(containers, f.cur)
                   /\ tasks' = [tasks EXCEPT ![t] = Done(f, NoResult)]
              ELSE /\ UNCHANGED containers
                   /\ tasks' = [tasks EXCEPT ![t] = Done(f, [method |-> "KeyError"])]
    /\ UNCHANGED <<podman_available, lastOp>>
    /\ UNCHANGED otherVars

\* The name of a returned call, as lastOp keeps it.
OpName(f) ==
    IF f.op = "execute" THEN "execute"
    ELSE IF f.arg = None THEN "cleanup_all" ELSE "cleanup_one"

\* The caller takes the result.
Return(t) ==
    /\ tasks[t].pc = "done"
    /\ tasks' = [tasks EXCEPT ![t] = IdleFrame]
    /\ lastOp' = OpName(tasks[t])
    /\ UNCHANGED <<podman_available, containers, runtime>>
    /\ UNCHANGED otherVars

(***************************************************************************)
(* JSON as the handlers see it.  A key of an object is a string, None      *)
(* (null), NonString (a value of another type, such as 5) or Absent (the   *)
(* key is missing); `shape` tells an object from a value that is not one   *)
(* (null, a number, a list) and from a missing key.                        *)
(***************************************************************************)
Absent == "<absent>"
NonString == "<5>"

\* dict.get(key, default)
Get(v, default) == IF v = Absent THEN default ELSE v

\* dict.get(key)
GetOrNone(v) == Get(v, None)

\* Python's `not v` for the values above
Falsy(v) == v \in {None, ""}

NoArguments ==
    [shape |-> "absent", language |-> Absent, code |-> Absent,
     filename |-> Absent, content |-> Absent]

OtherArguments == [NoArguments EXCEPT !.shape = "other"]

CodeArguments(language, code) ==
    [NoArguments EXCEPT !.shape = "object", !.language = language, !.code = code]

FileArguments(filename, content) ==
    [NoArguments EXCEPT !.shape = "object", !.filename = filename,
                        !.content = content]

NoParams == [shape |-> "absent", name |-> Absent, arguments |-> NoArguments]
OtherParams == [NoParams EXCEPT !.shape = "other"]
Params(name, arguments) == [shape |-> "object", name |-> name, arguments |-> arguments]

\* A line of stdin: blank, not JSON, JSON that is not an object, or an object.
BlankLine == [kind |-> "blank", method |-> Absent, id |-> Absent, params |-> NoParams]
GarbageLine == [BlankLine EXCEPT !.kind = "garbage"]
ScalarLine == [BlankLine EXCEPT !.kind = "scalar"]
Request(method, id, params) ==
    [kind |-> "object", method |-> method, id |-> id, params |-> params]

(***************************************************************************)
(* The responses main() prints.  `line` is the line_count of the input     *)
(* line the response answers; `code` is 0 for a result.                    *)
(***************************************************************************)
NoBody == [kind |-> "none", content |-> <<>>]
InitializeBody == [kind |-> "initialize", content |-> <<>>]
ToolsBody == [kind |-> "tools", content |-> <<"execute_code", "create_file">>]
ContentBody(text) == [kind |-> "content", content |-> <<[type |-> "text", text |-> text]>>]

ResultResponse(n, id, body) ==
    [line |-> n, id |-> id, code |-> 0, message |-> "", result |-> body]

ErrorResponse(n, id, code, message) ==
    [line |-> n, id |-> id, code |-> code, message |-> message, result |-> NoBody]

\* request_id = request.get("id"); if request_id is None: request_id = 1
request_id(req) == IF GetOrNone(req.id) = None THEN "1" ELSE req.id

\* An envelope that takes the id the way the results do.
envelope_id_defaulted(req) == IF GetOrNone(req.id) = None THEN "1" ELSE req.id

\* request.get("id", 1)
envelope_id(req) == Get(req.id, "1")

(***************************************************************************)
(* The tool surface of EnhancedMCPServer.                                  *)
(***************************************************************************)
\* What subprocess.run did for safe_execute_*: the child exited, the 30 s
\* deadline expired, the executable was not found, or the temp file or the
\* spawn raised another error.
ToolOutcomes ==
    { [kind |-> "exited", rc |-> 0, stdout |-> "4\n", stderr |-> ""],
      [kind |-> "exited", rc |-> 1, stdout |-> "",
       stderr |-> "ZeroDivisionError: division by zero\n"],
      [kind |-> "exited", rc |-> 0, stdout |-> "", stderr |-> ""] }
    \cup { [kind |-> k, rc |-> -1, stdout |-> "", stderr |-> ""] :
             k \in {"timeout", "missing", "raised"} }

safe_execute_python_code(o) ==
    CASE o.kind = "timeout" -> "Error: Code execution timed out (30 seconds)"
      [] o.kind = "missing" ->
            "Error: Subprocess execution failed: [Errno 2] No such file or directory"
      [] o.kind = "raised" ->
            "Error executing Python code: [Errno 28] No space left on device"
      [] OTHER -> FormatCapture(o, "\n\nErrors/Warnings:\n",
                                "Code executed successfully (no output)")

safe_execute_javascript_code(o) ==
    CASE o.kind = "timeout" -> "Error: Code execution timed out (30 seconds)"
      [] o.kind = "missing" ->
            "Error: Node.js not found. Please install Node.js to run JavaScript code."
      [] o.kind = "raised" ->
            "Error executing JavaScript code: [Errno 12] Cannot allocate memory"
      [] OTHER -> FormatCapture(o, "\n\nErrors:\n",
                                "Code executed successfully (no output)")

safe_execute_bash_code(o) ==
    CASE o.kind = "timeout" -> "Error: Command execution timed out (30 seconds)"
      [] o.kind \in {"missing", "raised"} ->
            "Error executing bash command: [Errno 12] Cannot allocate memory"
      [] OTHER -> FormatCapture(o, "\n\nErrors:\n",
                                "Command executed successfully (no output)")

\* A check that looks only for an absolute path.
AbsolutePathOnly(filename) == StartsWith(filename, "/")

\* The check of safe_create_file: `'..' in filename or filename.startswith('/')`.
TraversalAttempt(filename) == Contains(filename, "..") \/ StartsWith(filename, "/")

\* What open(filename, 'w') and f.write(content) did.
WriteOutcomes == {"written", "refused"}

\* safe_create_file.  A filename that is not a string raises at the check, a
\* content that is not a string raises at f.write, after open() made the file.
safe_create_file(filename, content, w) ==
    CASE filename = NonString ->
            "Error creating file: argument of type 'int' is not iterable"
      [] TraversalAttempt(filename) ->
            "Error: Invalid filename (path traversal attempt detected)"
      [] w = "refused" -> "Error creating file: [Errno 13] Permission denied"
      [] content \in {NonString, None} ->
            "Error creating file: write() argument must be str"
      [] OTHER -> "File '" \o filename \o "' created successfully with "
                    \o ToString(Len(content)) \o " characters"

\* The files on disk after safe_create_file.
files_after(fs, filename, content, w) ==
    IF filename # NonString /\ ~TraversalAttempt(filename) /\ w = "written"
    THEN fs \cup {filename}
    ELSE fs

(***************************************************************************)
(* The slash-command router, IntegratedSlashCommands.                      *)
(***************************************************************************)
InitialStats ==
    [commands_executed |-> 0, quantum_tests_run |-> 0,
     performance_gains_found |-> 0, bugs_prevented |-> 0,
     containers_used |-> 0, security_violations_prevented |-> 0]

commands ==
    {"run", "container", "secure_run", "dev_run", "quantum",
     "quantum_container", "benchmark", "podman_status", "cleanup", "status",
     "help"}

\* A registry in which the alias q points at another alias.
aliases_chained ==
    [a \in {"exec", "execute", "podman", "docker", "secure", "isolated",
            "dev", "development", "q", "qd", "qc", "quantum_secure", "perf",
            "speed", "pod_status", "container_status", "clean", "reset",
            "info", "health", "h", "?"} |->
        CASE a \in {"exec", "execute"} -> "run"
          [] a \in {"podman", "docker"} -> "container"
          [] a \in {"secure", "isolated"} -> "secure_run"
          [] a \in {"dev", "development"} -> "dev_run"
          [] a = "q" -> "qd"
          [] a = "qd" -> "quantum"
          [] a \in {"qc", "quantum_secure"} -> "quantum_container"
          [] a \in {"perf", "speed"} -> "benchmark"
          [] a \in {"pod_status", "container_status"} -> "podman_status"
          [] a \in {"clean", "reset"} -> "cleanup"
          [] a \in {"info", "health"} -> "status"
          [] OTHER -> "help"]

aliases ==
    [a \in {"exec", "execute", "podman", "docker", "secure", "isolated",
            "dev", "development", "q", "qd", "qc", "quantum_secure", "perf",
            "speed", "pod_status", "container_status", "clean", "reset",
            "info", "health", "h", "?"} |->
        CASE a \in {"exec", "execute"} -> "run"
          [] a \in {"podman", "docker"} -> "container"
          [] a \in {"secure", "isolated"} -> "secure_run"
          [] a \in {"dev", "development"} -> "dev_run"
          [] a \in {"q", "qd"} -> "quantum"
          [] a \in {"qc", "quantum_secure"} -> "quantum_container"
          [] a \in {"perf", "speed"} -> "benchmark"
          [] a \in {"pod_status", "container_status"} -> "podman_status"
          [] a \in {"clean", "reset"} -> "cleanup"
          [] a \in {"info", "health"} -> "status"
          [] OTHER -> "help"]

dangerous_patterns ==
    << <<"import os", "File system access">>,
       <<"subprocess", "System command execution">>,
       <<"exec(", "Code injection risk">>,
       <<"eval(", "Expression evaluation risk">>,
       <<"open(", "File access">>,
       <<"__import__", "Dynamic imports">>,
       <<"urllib", "Network access">>,
       <<"requests", "HTTP requests">>,
       <<"socket", "Network socket access">>,
       <<"sys.exit", "System exit attempt">>,
       <<"os.system", "System command execution">>,
       <<"os.popen", "System command execution">> >>

RECURSIVE IssuesFrom(_, _)
IssuesFrom(code, i) ==
    IF i > Len(dangerous_patterns) THEN <<>>
    ELSE (IF Contains(code, dangerous_patterns[i][1])
          THEN << dangerous_patterns[i][2] \o ": '" \o dangerous_patterns[i][1] \o "'" >>
          ELSE <<>>) \o IssuesFrom(code, i + 1)

\* An analyzer that reports findings only until the first violation was counted.
_analyze_security_once(code) ==
    IF stats.security_violations_prevented > 0 THEN <<>> ELSE IssuesFrom(code, 1)

_analyze_security(code) == IssuesFrom(code, 1)

RECURSIVE IssueLines(_)
IssueLines(issues) ==
    IF issues = <<>> THEN ""
    ELSE "  - " \o issues[1] \o "\n" \o IssueLines(Tail(issues))

\* The tail the three container handlers share: the output and error blocks.
StreamsText(r, errors) ==
    (IF r.output # "" THEN "**Output:**\n" \o r.output \o "\n" ELSE "")
    \o (IF r.error # "" THEN errors \o r.error \o "\n" ELSE "")

StatusText(r) == IF r.success THEN "Success" ELSE "Failed"

container_text(r) ==
    "Container Execution Result:\n**Security Level:** " \o r.security_level
    \o "\n**Method:** " \o r.method
    \o "\n**Container:** " \o (IF r.container_id = None THEN "N/A" ELSE r.container_id)
    \o "\n**Memory Usage:** " \o ToString(r.memory_usage) \o "MB"
    \o "\n**Status:** " \o StatusText(r) \o "\n"
    \o StreamsText(r, "**Errors:**\n")

secure_run_text(r, issues) ==
    "Maximum Security Execution:\n**Security Analysis:**\n"
    \o (IF issues # <<>>
        THEN "Potential Security Issues Detected:\n" \o IssueLines(issues)
        ELSE "No obvious security issues detected\n")
    \o "**Container:** " \o r.container_id
    \o "\n**Status:** " \o StatusText(r) \o "\n"
    \o StreamsText(r, "**Container Errors:**\n")

dev_run_text(r) ==
    "Development Execution:\n**Container:** " \o r.container_id
    \o "\n**Memory Usage:** " \o ToString(r.memory_usage) \o "MB\n"
    \o StreamsText(r, "**Errors:**\n")

cleanup_text(r, session_id) ==
    IF r.method = "KeyError" THEN "**Cleanup Error:** '" \o session_id \o "'"
    ELSE IF ~Falsy(session_id)
    THEN "**Cleanup Complete:**\nSession '" \o session_id \o "' cleaned up successfully"
    ELSE "**Cleanup Complete:**\nAll containers and sessions cleaned up"

\* What the handler that awaited the engine returns from the engine's answer.
handler_text(req, r) ==
    CASE req.handler = "container" -> container_text(r)
      [] req.handler = "secure_run" -> secure_run_text(r, req.issues)
      [] req.handler = "dev_run" -> dev_run_text(r)
      [] OTHER -> cleanup_text(r, req.arg)

\* The language dispatch of _handle_run.
run_text(language, o) ==
    "Standard Execution Result:\n"
    \o (CASE language = "python" -> safe_execute_python_code(o)
          [] language \in {"javascript", "js"} -> safe_execute_javascript_code(o)
          [] language = "bash" -> safe_execute_bash_code(o)
          [] OTHER -> "Unsupported language: " \o language)
    \o "\n**Security Level:** Subprocess isolation"

\* args[-1].isdigit(), for the iteration counts the inputs use
IsDigits(word) == word \in {"0", "5", "10"}

benchmark_text(args, o) ==
    LET counted == IsDigits(args[Len(args)])
        code == Join(SubSeq(args, 2, IF counted THEN Len(args) - 1 ELSE Len(args)))
    IN  "Performance Benchmark:\n**Code:** '" \o code
        \o "'\n**Language:** " \o Lower(args[1])
        \o "\n**Iterations:** " \o (IF counted THEN args[Len(args)] ELSE "10")
        \o "\n**Results:**\n" \o safe_execute_python_code(o)

\* The demo _handle_quantum picks from the task, and what it returns; the
\* sorting demo divides by the times it measured and raises when they are 0.
quantum_demo(task) ==
    LET t == Lower(task)
    IN  CASE Contains(t, "sort") -> "sorting"
          [] Contains(t, "prime") -> "prime"
          [] Contains(t, "fibonacci") -> "fibonacci"
          [] Contains(t, "sum") /\ Contains(t, "square") -> "sum_squares"
          [] OTHER -> "general"

QuantumOutcomes == {"measured", "zero"}

quantum_text(task, q, available) ==
    CASE quantum_demo(task) = "sorting" /\ q = "zero" ->
            "Error executing command quantum: float division by zero"
      [] quantum_demo(task) = "sorting" ->
            "Quantum Sorting Algorithm Analysis"
            \o (IF available THEN "\n**Container Option:** /quantum_container sort"
                ELSE "")
      [] quantum_demo(task) = "general" -> "Quantum Analysis: " \o task
      [] OTHER -> "Quantum Analysis (" \o quantum_demo(task) \o ")"

\* What `podman system info` answered to get_system_info.
InfoOutcomes == {"available", "error"}

podman_status_text(available, info, c, st) ==
    "Podman System Status:\n"
    \o (CASE ~available ->
               "**Status:** NOT AVAILABLE\n**Reason:** Podman not installed\n"
          [] info = "error" ->
               "**Status:** ERROR\n**Reason:** Failed to get system info\n"
          [] OTHER ->
               "**Status:** OPERATIONAL\n- Active containers: "
               \o ToString(Cardinality(DOMAIN c))
               \o "\n- Total containers used: " \o ToString(st.containers_used)
               \o "\n- Security violations prevented: "
               \o ToString(st.security_violations_prevented) \o "\n")

status_text(available, c, st) ==
    "Claude-Jester Enhanced System Status:\nAvailable Commands: "
    \o ToString(Cardinality(commands)) \o "\n"
    \o (IF available
        THEN "Podman: AVAILABLE\nActive Containers: "
             \o ToString(Cardinality(DOMAIN c)) \o "\n"
        ELSE "Podman: NOT AVAILABLE (fallback to subprocess)\n")
    \o "- Commands Executed: " \o ToString(st.commands_executed)
    \o "\n- Quantum Tests Run: " \o ToString(st.quantum_tests_run)
    \o "\n- Containers Used: " \o ToString(st.containers_used)
    \o "\n- Security Violations Prevented: "
    \o ToString(st.security_violations_prevented) \o "\n"

\* s.replace('/', '')
RECURSIVE WithoutSlashes(_)
WithoutSlashes(s) ==
    IF s = "" THEN ""
    ELSE (IF SubSeq(s, 1, 1) = "/" THEN "" ELSE SubSeq(s, 1, 1))
         \o WithoutSlashes(SubSeq(s, 2, Len(s)))

help_text(args) ==
    IF args # <<>> /\ WithoutSlashes(args[1]) \in commands
    THEN "**/" \o WithoutSlashes(args[1]) \o "**"
    ELSE "Claude-Jester Enhanced Commands"

(***************************************************************************)
(* Serving one line of stdin.  A handler that awaits the engine leaves the *)
(* request in `request` and the engine call in the frame of MainTask; the  *)
(* response is printed when the call has returned.                         *)
(***************************************************************************)
\* main()'s line_count and request, and the handler that is suspended
NoRequest ==
    [n |-> 0, line |-> BlankLine, handler |-> "none", id |-> None,
     issues |-> <<>>, arg |-> None]

\* the line `cx` has been served
Served(cx) == [NoRequest EXCEPT !.n = cx.n, !.line = cx.line]

\* print(json.dumps(response), flush=True)
WriteLine(response) == stdout' = Append(stdout, response)

\* handle_call_tool returns `text` in a result
Answer(cx, rid, text) ==
    /\ WriteLine(ResultResponse(cx.n, rid, ContentBody(text)))
    /\ request' = Served(cx)

\* the handler awaits the engine
Await(handler, cx, rid, issues, arg) ==
    /\ request' = [n |-> cx.n, line |-> cx.line, handler |-> handler,
                   id |-> rid, issues |-> issues, arg |-> arg]
    /\ UNCHANGED stdout

_handle_run(cx, rid, args, st) ==
    /\ stats' = st
    /\ UNCHANGED engineVars
    /\ IF Len(args) < 2
       THEN Answer(cx, rid, "Usage: /run <language> <code>")
       ELSE \E o \in ToolOutcomes : Answer(cx, rid, run_text(Lower(args[1]), o))

_handle_container(cx, rid, args, st) ==
    IF Len(args) < 3
    THEN /\ stats' = st
         /\ UNCHANGED engineVars
         /\ Answer(cx, rid, "Usage: /container <security_level> <language> <code>")
    ELSE IF Lower(args[1]) \notin {"isolation", "persistent", "development"}
    THEN /\ stats' = st
         /\ UNCHANGED engineVars
         /\ Answer(cx, rid,
               "Invalid security level. Use: isolation, persistent, or development")
    ELSE /\ stats' = [st EXCEPT !.containers_used = @ + 1]
         /\ execute_code(MainTask, Join(SubSeq(args, 3, Len(args))),
                         Lower(args[2]), Lower(args[1]))
         /\ Await("container", cx, rid, <<>>, None)

\* A handler that refuses to run code the analyzer has findings for.
_handle_secure_run_blocking(cx, rid, args, st) ==
    IF Len(args) < 2
    THEN /\ stats' = st
         /\ UNCHANGED engineVars
         /\ Answer(cx, rid, "Usage: /secure_run <language> <code>")
    ELSE LET code == Join(Tail(args))
             security_issues == _analyze_security(code)
         IN  IF security_issues # <<>>
             THEN /\ stats' = [st EXCEPT !.security_violations_prevented = @ + 1]
                  /\ UNCHANGED engineVars
                  /\ Answer(cx, rid, "Blocked:\n" \o IssueLines(security_issues))
             ELSE /\ stats' = [st EXCEPT !.containers_used = @ + 1]
                  /\ execute_code(MainTask, code, Lower(args[1]), "isolation")
                  /\ Await("secure_run", cx, rid, security_issues, None)

_handle_secure_run(cx, rid, args, st) ==
    IF Len(args) < 2
    THEN /\ stats' = st
         /\ UNCHANGED engineVars
         /\ Answer(cx, rid, "Usage: /secure_run <language> <code>")
    ELSE LET code == Join(Tail(args))
             security_issues == _analyze_security(code)
         IN  /\ stats' = [st EXCEPT
                   !.containers_used = @ + 1,
                   !.security_violations_prevented =
                       IF security_issues # <<>> THEN @ + 1 ELSE @]
             /\ execute_code(MainTask, code, Lower(args[1]), "isolation")
             /\ Await("secure_run", cx, rid, security_issues, None)

_handle_dev_run(cx, rid, args, st) ==
    IF Len(args) < 2
    THEN /\ stats' = st
         /\ UNCHANGED engineVars
         /\ Answer(cx, rid, "Usage: /dev_run <language> <code>")
    ELSE /\ stats' = [st EXCEPT !.containers_used = @ + 1]
         /\ execute_code(MainTask, Join(Tail(args)), Lower(args[1]), "development")
         /\ Await("dev_run", cx, rid, <<>>, None)

_handle_quantum(cx, rid, args, st) ==
    /\ UNCHANGED engineVars
    /\ IF args = <<>>
       THEN /\ stats' = st
            /\ Answer(cx, rid, "Usage: /quantum <task_description>")
       ELSE /\ stats' = [st EXCEPT !.quantum_tests_run = @ + 1]
            /\ \E q \in QuantumOutcomes :
                  Answer(cx, rid, quantum_text(Join(args), q, podman_available))

_handle_quantum_container(cx, rid, args, st) ==
    /\ UNCHANGED engineVars
    /\ IF args = <<>>
       THEN /\ stats' = st
            /\ Answer(cx, rid, "Usage: /quantum_container <task_description>")
       ELSE /\ stats' = [st EXCEPT !.quantum_tests_run = @ + 1,
                                   !.containers_used = @ + 3]
            /\ Answer(cx, rid, "Quantum Container Debugging:\n**Task:** " \o Join(args))

_handle_benchmark(cx, rid, args, st) ==
    /\ stats' = st
    /\ UNCHANGED engineVars
    /\ IF Len(args) < 2
       THEN Answer(cx, rid, "Usage: /benchmark <language> <code> [iterations]")
       ELSE \E o \in ToolOutcomes : Answer(cx, rid, benchmark_text(args, o))

_handle_podman_status(cx, rid, args, st) ==
    /\ stats' = st
    /\ UNCHANGED engineVars
    /\ \E info \in InfoOutcomes :
          Answer(cx, rid, podman_status_text(podman_available, info, containers, st))

_handle_cleanup(cx, rid, args, st) ==
    LET session_id == IF args # <<>> THEN args[1] ELSE None
    IN  /\ stats' = st
        /\ cleanup_session(MainTask, session_id)
        /\ Await("cleanup", cx, rid, <<>>, session_id)

\* A status handler that starts the statistics over after reporting them.
_handle_status_resets(cx, rid, args, st) ==
    /\ stats' = InitialStats
    /\ UNCHANGED engineVars
    /\ Answer(cx, rid, status_text(podman_available, containers, st))

_handle_status(cx, rid, args, st) ==
    /\ stats' = st
    /\ UNCHANGED engineVars
    /\ Answer(cx, rid, status_text(podman_available, containers, st))

_handle_help(cx, rid, args, st) ==
    /\ stats' = st
    /\ UNCHANGED engineVars
    /\ Answer(cx, rid, help_text(args))

\* command.handler(args, text), after the history and the counter were updated
handler(cmd_name, cx, rid, args, st) ==
    CASE cmd_name = "run" -> _handle_run(cx, rid, args, st)
      [] cmd_name = "container" -> _handle_container(cx, rid, args, st)
      [] cmd_name = "secure_run" -> _handle_secure_run(cx, rid, args, st)
      [] cmd_name = "dev_run" -> _handle_dev_run(cx, rid, args, st)
      [] cmd_name = "quantum" -> _handle_quantum(cx, rid, args, st)
      [] cmd_name = "quantum_container" -> _handle_quantum_container(cx, rid, args, st)
      [] cmd_name = "benchmark" -> _handle_benchmark(cx, rid, args, st)
      [] cmd_name = "podman_status" -> _handle_podman_status(cx, rid, args, st)
      [] cmd_name = "cleanup" -> _handle_cleanup(cx, rid, args, st)
      [] cmd_name = "status" -> _handle_status(cx, rid, args, st)
      [] OTHER -> _handle_help(cx, rid, args, st)

\* A router that counts a dispatched command and keeps no record of it.
process_command_keeps_no_history(cx, rid, text) ==
    LET parts == Split(SubSeq(text, 2, Len(text)))
        word == Lower(parts[1])
        args == Tail(parts)
        cmd_name == IF word \in DOMAIN aliases THEN aliases[word] ELSE word
    IN  IF ~StartsWith(text, "/")
        THEN /\ Answer(cx, rid, "Not a slash command. Use /help to see available commands.")
             /\ UNCHANGED <<engineVars, routerVars>>
        ELSE IF parts = <<>>
        THEN /\ Answer(cx, rid, "Empty command. Use /help for assistance.")
             /\ UNCHANGED <<engineVars, routerVars>>
        ELSE IF cmd_name \notin commands
        THEN /\ Answer(cx, rid, "Unknown command: " \o cmd_name
                                 \o ". Use /help to see available commands.")
             /\ UNCHANGED <<engineVars, routerVars>>
        ELSE /\ history' = history
             /\ handler(cmd_name, cx, rid, args,
                        [stats EXCEPT !.commands_executed = @ + 1])

\* A router that records the command before it looks the name up.
process_command_records_first(cx, rid, text) ==
    LET parts == Split(SubSeq(text, 2, Len(text)))
        word == Lower(parts[1])
        args == Tail(parts)
        cmd_name == IF word \in DOMAIN aliases THEN aliases[word] ELSE word
    IN  IF ~StartsWith(text, "/")
        THEN /\ Answer(cx, rid, "Not a slash command. Use /help to see available commands.")
             /\ UNCHANGED <<engineVars, routerVars>>
        ELSE IF parts = <<>>
        THEN /\ Answer(cx, rid, "Empty command. Use /help for assistance.")
             /\ UNCHANGED <<engineVars, routerVars>>
        ELSE IF cmd_name \notin commands
        THEN /\ Answer(cx, rid, "Unknown command: " \o cmd_name
                                 \o ". Use /help to see available commands.")
             /\ history' = Append(history, [command |-> text, args |-> args])
             /\ stats' = [stats EXCEPT !.commands_executed = @ + 1]
             /\ UNCHANGED engineVars
        ELSE /\ history' = Append(history, [command |-> text, args |-> args])
             /\ handler(cmd_name, cx, rid, args,
                        [stats EXCEPT !.commands_executed = @ + 1])

process_command(cx, rid, text) ==
    LET parts == Split(SubSeq(text, 2, Len(text)))
        word == Lower(parts[1])
        args == Tail(parts)
        cmd_name == IF word \in DOMAIN aliases THEN aliases[word] ELSE word
    IN  IF ~StartsWith(text, "/")
        THEN /\ Answer(cx, rid, "Not a slash command. Use /help to see available commands.")
             /\ UNCHANGED <<engineVars, routerVars>>
        ELSE IF parts = <<>>
        THEN /\ Answer(cx, rid, "Empty command. Use /help for assistance.")
             /\ UNCHANGED <<engineVars, routerVars>>
        ELSE IF cmd_name \notin commands
        THEN /\ Answer(cx, rid, "Unknown command: " \o cmd_name
                                 \o ". Use /help to see available commands.")
             /\ UNCHANGED <<engineVars, routerVars>>
        ELSE /\ history' = Append(history, [command |-> text, args |-> args])
             /\ handler(cmd_name, cx, rid, args,
                        [stats EXCEPT !.commands_executed = @ + 1])

\* A handler returns `text` without touching the engine, the router or the disk.
Plain(cx, rid, text) ==
    /\ Answer(cx, rid, text)
    /\ UNCHANGED <<engineVars, routerVars, files>>

\* An exception that is reported but unwinds the loop of main(): the request
\* is never marked as served.
FailureUnwinds(cx, why) ==
    /\ WriteLine(ErrorResponse(cx.n, envelope_id(cx.line), -32603,
                               "Internal error: " \o why))
    /\ request' = [Served(cx) EXCEPT !.handler = "unwound"]
    /\ UNCHANGED <<engineVars, routerVars, files>>

\* except Exception in handle_call_tool: the -32603 envelope
Failure(cx, why) ==
    /\ WriteLine(ErrorResponse(cx.n, envelope_id(cx.line), -32603,
                               "Internal error: " \o why))
    /\ request' = Served(cx)
    /\ UNCHANGED <<engineVars, routerVars, files>>

\* `if not tool_name`
ToolNameMissing(tool_name) == Falsy(tool_name)

\* A test that looks at the language only.
is_slash_language(language, code) == language = "slash"

\* `elif language == "slash" or code.startswith('/')`, on the lower-cased language
is_slash_command(language, code) == language = "slash" \/ StartsWith(code, "/")

\* The language dispatch of handle_call_tool.
execute_text(language, o) ==
    CASE language = "python" -> safe_execute_python_code(o)
      [] language \in {"javascript", "js"} -> safe_execute_javascript_code(o)
      [] language = "bash" -> safe_execute_bash_code(o)
      [] OTHER -> "Unsupported language: " \o language
                    \o ". Supported: python, javascript, bash, slash"

handle_call_tool(cx) ==
    LET params == cx.line.params
        arguments == params.arguments
        tool_name == GetOrNone(params.name)
        language == Get(arguments.language, "")
        code == Get(arguments.code, "")
        filename == Get(arguments.filename, "")
        content == Get(arguments.content, "")
        rid == request_id(cx.line)
    IN  IF params.shape = "other"
        THEN Failure(cx, "'NoneType' object has no attribute 'get'")
        ELSE IF ToolNameMissing(tool_name)
        THEN Failure(cx, "Tool name is required")
        ELSE IF tool_name = "execute_code"
        THEN IF arguments.shape = "other"
             THEN Failure(cx, "'NoneType' object has no attribute 'get'")
             ELSE IF language \in {NonString, None}
             THEN Failure(cx, "'int' object has no attribute 'lower'")
             ELSE IF code \in {NonString, None}
             THEN Failure(cx, "'int' object has no attribute 'strip'")
             ELSE IF Strip(code) = ""
             THEN Plain(cx, rid, "Error: No code provided")
             ELSE IF is_slash_command(Lower(language), code)
             THEN /\ process_command(cx, rid, code)
                  /\ UNCHANGED files
             ELSE \E o \in ToolOutcomes :
                     Plain(cx, rid, execute_text(Lower(language), o))
        ELSE IF tool_name = "create_file"
        THEN IF arguments.shape = "other"
             THEN Failure(cx, "'NoneType' object has no attribute 'get'")
             ELSE IF Falsy(filename)
             THEN Plain(cx, rid, "Error: Filename is required")
             ELSE \E w \in WriteOutcomes :
                     /\ Answer(cx, rid, safe_create_file(filename, content, w))
                     /\ files' = files_after(files, filename, content, w)
                     /\ UNCHANGED <<engineVars, routerVars>>
        ELSE Plain(cx, rid, "Unknown tool: " \o tool_name)

\* main() prints `response` and goes on to the next line
Reply(cx, response) ==
    /\ WriteLine(response)
    /\ request' = Served(cx)
    /\ UNCHANGED <<engineVars, routerVars, files>>

\* `continue`: an empty line, and the notifications/initialized notification
Skip(cx) ==
    /\ request' = Served(cx)
    /\ UNCHANGED <<stdout, engineVars, routerVars, files>>

handle_initialize(cx) ==
    Reply(cx, ResultResponse(cx.n, request_id(cx.line), InitializeBody))

handle_list_tools(cx) ==
    Reply(cx, ResultResponse(cx.n, request_id(cx.line), ToolsBody))

\* except json.JSONDecodeError
parse_error(cx) == Reply(cx, ErrorResponse(cx.n, None, -32700, "Parse error"))

\* except Exception in main(): request.get on a value that is not an object
internal_error(cx) ==
    Reply(cx, ErrorResponse(cx.n, None, -32603,
                            "Internal error: object has no attribute 'get'"))

\* A server that does not answer a method it does not know.
method_ignored(cx) == Skip(cx)

\* the else branch of the dispatch in main()
method_not_found(cx) ==
    Reply(cx, ErrorResponse(cx.n, envelope_id(cx.line), -32601,
                            "Method not found: " \o GetOrNone(cx.line.method)))

\* The body of the loop of main() for one line.
Serve(cx) ==
    CASE cx.line.kind = "blank" -> Skip(cx)
      [] cx.line.kind = "garbage" -> parse_error(cx)
      [] cx.line.kind = "scalar" -> internal_error(cx)
      [] cx.line.method = "initialize" -> handle_initialize(cx)
      [] cx.line.method = "tools/list" -> handle_list_tools(cx)
      [] cx.line.method = "tools/call" -> handle_call_tool(cx)
      [] cx.line.method = "notifications/initialized" -> Skip(cx)
      [] OTHER -> method_not_found(cx)

(***************************************************************************)
(* The lines a client sends.                                               *)
(***************************************************************************)
Ids == {Absent, None, "7"}

Methods == {"initialize", "tools/list", "notifications/initialized", "ping", Absent}

SlashTexts ==
    { "/", "/bogus", "/help", "/HELP run", "/h /cleanup", "/status",
      "/run python", "/run python print(1)", "/exec ruby puts",
      "/container persistent python", "/container bogus python print(1)",
      "/container persistent python print(1)",
      "/container Persistent bash echo hi",
      "/container persistent ruby puts 1",
      "/container isolation python print(1)",
      "/secure_run python import os", "/secure python print(1)", "/secure_run python",
      "/dev_run python print(1)", "/dev python",
      "/quantum", "/quantum sort numbers", "/q prime", "/quantum tune it",
      "/quantum_container", "/qc sort",
      "/benchmark python", "/benchmark python pass 5", "/perf python pass",
      "/podman_status", "/cleanup", "/cleanup claude-session-python",
      "/clean claude-session-bash" }

CodeArgs ==
    { CodeArguments("python", "print(2+2)"), CodeArguments("Python", "print(2+2)"),
      CodeArguments("bash", "echo hi"), CodeArguments("js", "1/0"),
      CodeArguments("ruby", "puts 1"), CodeArguments(Absent, "print(2+2)"),
      CodeArguments("python", Absent), CodeArguments("python", ""),
      CodeArguments("python", " \n"), CodeArguments("python", NonString),
      CodeArguments("python", None), CodeArguments(NonString, "print(2+2)"),
      CodeArguments(None, "print(2+2)"), CodeArguments("slash", "help"),
      CodeArguments("python", "/help"), CodeArguments(Absent, "/status"),
      CodeArguments("slash", " "), CodeArguments("SLASH", "help"),
      CodeArguments("bash", " /help") }
    \cup { CodeArguments("slash", text) : text \in SlashTexts }

FileArgs ==
    { FileArguments("notes.txt", "hello"), FileArguments("notes.txt", Absent),
      FileArguments("notes.txt", NonString), FileArguments("../escape.txt", "x"),
      FileArguments("/etc/passwd", "x"), FileArguments("a..b", "x"),
      FileArguments("", "x"), FileArguments(Absent, "x"),
      FileArguments(None, "x"), FileArguments(NonString, "x") }

ToolParams ==
    { NoParams, OtherParams, Params(Absent, NoArguments), Params("", NoArguments),
      Params(None, NoArguments), Params(Absent, OtherArguments),
      Params(NonString, NoArguments), Params("delete_file", NoArguments),
      Params("delete_file", OtherArguments),
      Params("jester-mcp:execute_code", CodeArguments("python", "print(2+2)")) }
    \cup { Params("execute_code", a) : a \in {NoArguments, OtherArguments} \cup CodeArgs }
    \cup { Params("create_file", a) : a \in {NoArguments, OtherArguments} \cup FileArgs }

Lines ==
    { BlankLine, GarbageLine, ScalarLine }
    \cup { Request(m, id, NoParams) : m \in Methods, id \in Ids }
    \cup { Request("tools/call", "7", p) : p \in ToolParams }
    \cup { Request("tools/call", id, p) :
             id \in {Absent, None},
             p \in {NoParams, Params("execute_code", NoArguments)} }

(***************************************************************************)
(* main(): the loop over stdin.                                            *)
(***************************************************************************)
\* A loop that reads the next line while a request is still waiting.
ReadLineWhileWaiting ==
    /\ mainpc = "running"
    /\ stdin > 0
    /\ stdin' = stdin - 1
    /\ UNCHANGED <<mainpc, inspectorVars>>
    /\ \E line \in Lines : Serve([n |-> request.n + 1, line |-> line])

\* `for line in sys.stdin`: the next line is read and served, up to the
\* first await of the engine.
ReadLine ==
    /\ mainpc = "running"
    /\ stdin > 0
    /\ request.handler = "none"
    /\ stdin' = stdin - 1
    /\ UNCHANGED <<mainpc, inspectorVars>>
    /\ \E line \in Lines : Serve([n |-> request.n + 1, line |-> line])

\* The engine call the handler awaited has returned: the handler formats
\* the result, handle_call_tool wraps it, and main() prints the response.
Respond ==
    /\ request.handler # "none"
    /\ tasks[MainTask].pc = "done"
    /\ WriteLine(ResultResponse(request.n, request.id,
                   ContentBody(handler_text(request, tasks[MainTask].result))))
    /\ request' = Served(request)
    /\ tasks' = [tasks EXCEPT ![MainTask] = IdleFrame]
    /\ lastOp' = OpName(tasks[MainTask])
    /\ UNCHANGED <<podman_available, containers, runtime, stats, history,
                   stdin, mainpc, files, inspectorVars>>

\* The loop of main() ends, at the end of stdin or on KeyboardInterrupt
\* between two lines: the finally clause logs the shutdown and main() returns.
Exit ==
    /\ mainpc = "running"
    /\ request.handler = "none"
    /\ mainpc' = "exited"
    /\ UNCHANGED <<engineVars, routerVars, stdin, stdout, request, files,
                   inspectorVars>>


(***************************************************************************)
(* The protocol inspector, MCPInspector, and the two routes of             *)
(* DevelopmentServer that change it.  Times are whole milliseconds and an  *)
(* average is the exact quotient, kept as a reduced fraction.              *)
(***************************************************************************)
\* self.max_messages, the capacity of the ring buffer: 1000 in the source,
\* small here so that the buffer overflows within MaxLogCalls calls.
max_messages == 2

RECURSIVE GCD(_, _)
GCD(a, b) == IF b = 0 THEN a ELSE GCD(b, a % b)

\* The quotient n / d of two naturals, d > 0.
Quotient(n, d) == [num |-> n \div GCD(n, d), den |-> d \div GCD(n, d)]

\* __init__: performance_metrics
InitialMetrics ==
    [total_messages |-> 0, avg_response_time |-> Quotient(0, 1),
     error_count |-> 0, method_stats |-> <<>>]

\* The MCPMessage log_message builds; time.time() is the position of the call.
MCPMessage(timestamp, direction, content, execution_time, error) ==
    [timestamp |-> timestamp, direction |-> direction,
     message_type |-> Get(content.method, "response"),
     method |-> GetOrNone(content.method),
     message_id |-> GetOrNone(content.id),
     execution_time |-> execution_time, error |-> error]

\* execution_time: Optional[float] = None
NoTime == -1

\* `if message.execution_time`
Timed(message) == message.execution_time \notin {NoTime, 0}

\* (current_avg * (total - 1) + message.execution_time) / total
running_average(pm, message) ==
    LET total == pm.total_messages + 1
    IN  Quotient(pm.avg_response_time.num * (total - 1)
                     + message.execution_time * pm.avg_response_time.den,
                 pm.avg_response_time.den * total)

\* The entry of method_stats after one more message of its method.
method_entry(stats_, message) ==
    LET old == IF message.method \in DOMAIN stats_ THEN stats_[message.method]
               ELSE [count |-> 0, total_time |-> 0, avg_time |-> Quotient(0, 1),
                     errors |-> 0]
        count == old.count + 1
        total_time == IF Timed(message) THEN old.total_time + message.execution_time
                      ELSE old.total_time
    IN  [count |-> count, total_time |-> total_time,
         avg_time |-> IF Timed(message) THEN Quotient(total_time, count)
                      ELSE old.avg_time,
         errors |-> IF ~Falsy(message.error) THEN old.errors + 1 ELSE old.errors]

_update_metrics(pm, message) ==
    [total_messages |-> pm.total_messages + 1,
     error_count |-> IF ~Falsy(message.error) THEN pm.error_count + 1
                     ELSE pm.error_count,
     avg_response_time |-> IF Timed(message) THEN running_average(pm, message)
                           ELSE pm.avg_response_time,
     method_stats |->
        IF Falsy(message.method) THEN pm.method_stats
        ELSE [m \in DOMAIN pm.method_stats \cup {message.method} |->
                IF m = message.method THEN method_entry(pm.method_stats, message)
                ELSE pm.method_stats[m]]]

\* A buffer that evicts the newest message when it is full.
ring_append_newest_out(buffer, message) ==
    IF Len(buffer) + 1 > max_messages THEN buffer ELSE Append(buffer, message)

\* self.messages.append(message), then pop(0) when the buffer is over its cap
ring_append(buffer, message) ==
    IF Len(buffer) + 1 > max_messages THEN Tail(Append(buffer, message))
    ELSE Append(buffer, message)

\* The calls of log_message: a request, and responses with and without a
\* measured time and an error.
LogInputs ==
    { [direction |-> "inbound", content |-> [method |-> "tools/call", id |-> "7"],
       execution_time |-> NoTime, error |-> None],
      [direction |-> "outbound", content |-> [method |-> Absent, id |-> "7"],
       execution_time |-> 10, error |-> None],
      [direction |-> "outbound", content |-> [method |-> Absent, id |-> "7"],
       execution_time |-> 0, error |-> None],
      [direction |-> "outbound", content |-> [method |-> "tools/call", id |-> Absent],
       execution_time |-> 20, error |-> "boom"] }

\* The websockets that connect to /ws.
WebSockets == {"ws1", "ws2"}

\* _broadcast_to_clients, run to its end: the envelope of the message goes to
\* every client whose send does not raise, and the clients in failing, whose
\* send raises, are removed.
_broadcast_to_clients(message, failing) ==
    /\ sent' = [ws \in WebSockets |->
                  IF ws \in connected_clients \ failing
                  THEN Append(sent[ws], [type |-> "mcp_message",
                                         data |-> message.timestamp])
                  ELSE sent[ws]]
    /\ connected_clients' = connected_clients \ failing

\* A log_message whose metrics count the calls made while recording is off.
log_message_counting_all(direction, content, execution_time, error) ==
    LET message == MCPMessage(Len(log_calls) + 1, direction, content,
                              execution_time, error)
    IN  /\ log_calls' = Append(log_calls,
                               [message |-> message, recorded |-> is_recording])
        /\ messages' = IF is_recording THEN ring_append(messages, message)
                       ELSE messages
        /\ performance_metrics' = _update_metrics(performance_metrics, message)
        /\ UNCHANGED <<is_recording, cleared_at, connected_clients, sent>>

\* log_message.  Its last statement calls _broadcast_to_clients without
\* awaiting it: the call builds a coroutine object that no one runs, so no
\* envelope is sent and no client is removed.
log_message(direction, content, execution_time, error) ==
    LET message == MCPMessage(Len(log_calls) + 1, direction, content,
                              execution_time, error)
    IN  /\ log_calls' = Append(log_calls,
                               [message |-> message, recorded |-> is_recording])
        /\ IF is_recording
           THEN /\ messages' = ring_append(messages, message)
                /\ performance_metrics' =
                      _update_metrics(performance_metrics, message)
           ELSE UNCHANGED <<messages, performance_metrics>>
        /\ UNCHANGED <<is_recording, cleared_at, connected_clients, sent>>

\* How many calls of log_message the wrapped call under way has yet to make.
OwedLogCalls == IF wrapped.pc = "idle" THEN 0 ELSE 1

LogMessage ==
    /\ Len(log_calls) + OwedLogCalls < MaxLogCalls
    /\ \E i \in LogInputs :
          log_message(i.direction, i.content, i.execution_time, i.error)
    /\ UNCHANGED <<wrapped, passed>>
    /\ UNCHANGED <<engineVars, routerVars, mainVars>>

\* A clear that also resets the metrics.
clear_messages_and_metrics ==
    /\ messages' = <<>>
    /\ cleared_at' = Len(log_calls)
    /\ performance_metrics' = InitialMetrics
    /\ UNCHANGED <<is_recording, log_calls>>
    /\ UNCHANGED <<connected_clients, sent, wrapped, passed>>
    /\ UNCHANGED <<engineVars, routerVars, mainVars>>

\* POST /api/clear
clear_messages ==
    /\ messages' = <<>>
    /\ cleared_at' = Len(log_calls)
    /\ UNCHANGED <<is_recording, performance_metrics, log_calls>>
    /\ UNCHANGED <<connected_clients, sent, wrapped, passed>>
    /\ UNCHANGED <<engineVars, routerVars, mainVars>>

\* POST /api/toggle_recording
toggle_recording ==
    /\ is_recording' = ~is_recording
    /\ UNCHANGED <<messages, performance_metrics, log_calls, cleared_at>>
    /\ UNCHANGED <<connected_clients, sent, wrapped, passed>>
    /\ UNCHANGED <<engineVars, routerVars, mainVars>>

\* websocket_endpoint: accept, then append to connected_clients
websocket_connect(ws) ==
    /\ ws \notin connected_clients
    /\ connected_clients' = connected_clients \cup {ws}
    /\ UNCHANGED <<messages, is_recording, performance_metrics, log_calls,
                   cleared_at, sent, wrapped, passed>>
    /\ UNCHANGED <<engineVars, routerVars, mainVars>>

\* websocket_endpoint: receive_text raises when the peer has gone
websocket_disconnect(ws) ==
    /\ ws \in connected_clients
    /\ connected_clients' = connected_clients \ {ws}
    /\ UNCHANGED <<messages, is_recording, performance_metrics, log_calls,
                   cleared_at, sent, wrapped, passed>>
    /\ UNCHANGED <<engineVars, routerVars, mainVars>>

(***************************************************************************)
(* EnhancedMCPServer._wrap_handler: the wrapped handler, cut at its await  *)
(* of the handler it wraps.                                                *)
(***************************************************************************)
\* No wrapped call is under way; nothing has been given to a caller yet.
NoCall == [pc |-> "idle", method |-> None, outcome |-> None]
NoOutcome == [kind |-> "none", value |-> None]

\* What the wrapped handler does: it returns a value, returns None, or raises.
HandlerOutcomes ==
    { [kind |-> "return", value |-> "ok"],
      [kind |-> "return", value |-> None],
      [kind |-> "raise", value |-> [type |-> "ValueError", text |-> "bad"]] }

\* (time.time() - start_time) * 1000, in whole milliseconds
MeasuredTimes == {0, 15}

\* f"{type(e).__name__}: {str(e)}"
error_msg(e) == e.type \o ": " \o e.text

\* A wrapper that swallows the exception of its handler and returns None.
give_back_swallowed(outcome) ==
    IF outcome.kind = "raise" THEN [kind |-> "return", value |-> None] ELSE outcome

\* `return result` after a return of the handler, `raise` after an exception
give_back(outcome) == outcome

\* wrapped_handler up to `await handler(*args, **kwargs)`
wrapped_handler(method) ==
    /\ wrapped.pc = "idle"
    /\ Len(log_calls) + 2 <= MaxLogCalls
    /\ log_message("inbound", [method |-> method, id |-> Absent], NoTime, None)
    /\ wrapped' = [pc |-> "handler", method |-> method, outcome |-> None]
    /\ UNCHANGED passed
    /\ UNCHANGED <<engineVars, routerVars, mainVars>>

\* The handler runs to its end.
handler_ends(outcome) ==
    /\ wrapped.pc = "handler"
    /\ wrapped' = [wrapped EXCEPT !.pc = "resumed", !.outcome = outcome]
    /\ UNCHANGED <<messages, is_recording, performance_metrics, log_calls,
                   cleared_at, connected_clients, sent, passed>>
    /\ UNCHANGED <<engineVars, routerVars, mainVars>>

\* wrapped_handler after the await: the try branch or the except branch
wrapped_handler_resumes(execution_time) ==
    /\ wrapped.pc = "resumed"
    /\ log_message("outbound", [method |-> wrapped.method, id |-> Absent],
                   execution_time,
                   IF wrapped.outcome.kind = "raise"
                   THEN error_msg(wrapped.outcome.value) ELSE None)
    /\ passed' = give_back(wrapped.outcome)
    /\ wrapped' = NoCall
    /\ UNCHANGED <<engineVars, routerVars, mainVars>>

\* The methods whose handlers are wrapped.
WrappedMethods == {"tools/call", "initialize"}

WrappedCall ==
    \/ \E method \in WrappedMethods : wrapped_handler(method)
    \/ \E outcome \in HandlerOutcomes : handler_ends(outcome)
    \/ \E execution_time \in MeasuredTimes : wrapped_handler_resumes(execution_time)

(***************************************************************************)
(* The engine with callers of its own: one caller (SpecEngine), and two    *)
(* that interleave at their awaits (SpecConc).                             *)
(***************************************************************************)
InitEngine ==
    /\ podman_available \in BOOLEAN
    /\ containers = EmptyRegistry
    /\ runtime = {}
    /\ tasks = [t \in Tasks |-> IdleFrame]
    /\ lastOp = "none"

\* The router and main() before the first line is read.
InitRest ==
    /\ stats = InitialStats
    /\ history = <<>>
    /\ stdin = MaxLines
    /\ stdout = <<>>
    /\ request = NoRequest
    /\ mainpc = "running"
    /\ files = {}
    /\ messages = <<>>
    /\ is_recording = TRUE
    /\ performance_metrics = InitialMetrics
    /\ log_calls = <<>>
    /\ cleared_at = 0
    /\ connected_clients = {}
    /\ sent = [ws \in WebSockets |-> <<>>]
    /\ wrapped = NoCall
    /\ passed = NoOutcome

\* The state after construction.
Init == InitEngine /\ InitRest

CallExecute(t) ==
    /\ \E code \in Codes, language \in Languages, tier \in Tiers :
          execute_code(t, code, language, tier)
    /\ UNCHANGED otherVars

CallCleanup(t) ==
    /\ \E sid \in {None} \cup SessionIds : cleanup_session(t, sid)
    /\ UNCHANGED otherVars

NextEngine ==
    \/ CallExecute(MainTask) \/ CallCleanup(MainTask)
    \/ TierRun(MainTask) \/ TierStats(MainTask) \/ TierKill(MainTask)
    \/ PerCreate(MainTask) \/ PerWrite(MainTask) \/ PerRun(MainTask)
    \/ PerStats(MainTask)
    \/ CleanupKill(MainTask) \/ CleanupDel(MainTask)
    \/ Return(MainTask)

SpecEngine == Init /\ [][NextEngine]_vars

\* The engine with the progress its code guarantees.  A step that waits for a
\* child under asyncio.wait_for is taken in the end (the child exits or the
\* deadline expires), and so is a step that only spawns `podman kill` or
\* returns; a step that waits for a child with a bare communicate() (the
\* session container's creation, the write of the code into it, podman
\* stats) is taken only if the child exits, which nothing guarantees.
SpecEngineLive ==
    /\ Init /\ [][NextEngine]_vars
    /\ WF_vars(TierRun(MainTask)) /\ WF_vars(PerRun(MainTask))
    /\ WF_vars(TierKill(MainTask))
    /\ WF_vars(CleanupKill(MainTask)) /\ WF_vars(CleanupDel(MainTask))
    /\ WF_vars(Return(MainTask))

\* Two callers of the persistent tier and of cleanup, on an engine whose
\* runtime probe succeeded.
ConcExecute(t) ==
    /\ \E language \in Languages : execute_code(t, "print(1)", language, "persistent")
    /\ UNCHANGED otherVars

InitConc ==
    /\ InitEngine
    /\ InitRest
    /\ podman_available

NextConc ==
    \E t \in Tasks :
        \/ ConcExecute(t) \/ CallCleanup(t)
        \/ TierRun(t) \/ TierStats(t) \/ TierKill(t)
        \/ PerCreate(t) \/ PerWrite(t) \/ PerRun(t) \/ PerStats(t)
        \/ CleanupKill(t) \/ CleanupDel(t)
        \/ Return(t)

SpecConc == InitConc /\ [][NextConc]_vars

\* The inspector under any sequence of log, clear and toggle_recording, with
\* websockets that come and go and handlers called through their wrappers.
NextInspector ==
    \/ LogMessage \/ clear_messages \/ toggle_recording
    \/ \E ws \in WebSockets : websocket_connect(ws)
    \/ \E ws \in WebSockets : websocket_disconnect(ws)
    \/ WrappedCall

SpecInspector == Init /\ [][NextInspector]_vars

\* The server as main() runs it: one line of stdin after the other.
Next ==
    \/ ReadLine
    \/ TierRun(MainTask) \/ TierStats(MainTask) \/ TierKill(MainTask)
    \/ PerCreate(MainTask) \/ PerWrite(MainTask) \/ PerRun(MainTask)
    \/ PerStats(MainTask)
    \/ CleanupKill(MainTask) \/ CleanupDel(MainTask)
    \/ Respond
    \/ Exit

Spec == Init /\ [][Next]_vars

\* The line main() read last expects no response: it is empty, or it is the
\* notifications/initialized notification.
Silent(line) ==
    \/ line.kind = "blank"
    \/ line.kind = "object" /\ line.method = "notifications/initialized"

\* This step printed exactly one line, the response to input line n.
PrintedOneFor(n) ==
    /\ Len(stdout') = Len(stdout) + 1
    /\ SubSeq(stdout', 1, Len(stdout)) = stdout
    /\ stdout'[Len(stdout')].line = n

\* C1: every non-empty line main() reads gets exactly one response line on
\* stdout, whatever it holds, printed by the step that serves it or, when the
\* handler awaits the engine, by the step that resumes it; an empty line and
\* a notifications/initialized request get none; no other step prints, and a
\* suspended request always has its engine call under way.
C1_OneResponsePerLine ==
    /\ [](request.handler # "none" => tasks[MainTask].pc # "idle")
    /\ [][ LET reading == stdin' # stdin
               resuming == request.handler # "none" /\ request'.handler = "none"
           IN  /\ (reading /\ Silent(request'.line)) =>
                      (stdout' = stdout /\ request'.handler = "none")
               /\ (reading /\ ~Silent(request'.line)) =>
                      \/ request'.handler = "none" /\ PrintedOneFor(request'.n)
                      \/ request'.handler # "none" /\ stdout' = stdout
               /\ resuming => PrintedOneFor(request.n)
               /\ (~reading /\ ~resuming) => stdout' = stdout ]_vars

\* Line 1 was answered by a handler that awaited the engine, line 2 was a
\* method the server does not know and was answered too.
C1_Witness ==
    /\ request.n = 2
    /\ request.handler = "none"
    /\ request.line.method = "ping"
    /\ Len(stdout) = 2
    /\ stdout[1].line = 1 /\ stdout[1].code = 0
    /\ lastOp = "execute"
    /\ stdout[2].line = 2 /\ stdout[2].code = -32601

\* C2: the response to every tools/call request is a result whose content
\* array has at least one element, all of type "text"; never an error
\* envelope.
C2_ToolCallAlwaysResult ==
    (request.handler = "none" /\ request.line.kind = "object"
        /\ request.line.method = "tools/call") =>
        /\ Len(stdout) > 0
        /\ LET r == stdout[Len(stdout)]
           IN  /\ r.line = request.n
               /\ r.code = 0
               /\ r.result.kind = "content"
               /\ Len(r.result.content) >= 1
               /\ \A k \in 1..Len(r.result.content) : r.result.content[k].type = "text"

(***************************************************************************)
(* Properties of the engine.                                               *)
(***************************************************************************)
\* execute_code has returned to caller t.
Returned(t) == tasks[t].pc = "done" /\ tasks[t].op = "execute"

\* The container the call of frame f ran its code in.
RanIn(f) ==
    IF f.result.security_level = "persistent" THEN SessionId(f.language)
    ELSE ContainerName(f.mode, f.language)

\* C3, as stated: every returned ExecutionResult has success true if and
\* only if its method is podman or fallback.
C3_SuccessIffMethod ==
    \A t \in Tasks : Returned(t) =>
        (tasks[t].result.success <=> tasks[t].result.method \in {"podman", "fallback"})

\* C3, amended: every returned ExecutionResult with success true has method
\* podman or fallback (the converse fails: a process that exits non-zero
\* keeps the method podman, a fallback text with "Error:" the method
\* fallback).
C3_SuccessImpliesMethod ==
    \A t \in Tasks : Returned(t) =>
        (tasks[t].result.success => tasks[t].result.method \in {"podman", "fallback"})

C3_Witness ==
    \E t \in Tasks :
        /\ Returned(t)
        /\ tasks[t].result.success
        /\ tasks[t].result.method = "podman"
        /\ tasks[t].downgraded

\* C4: every returned ExecutionResult whose method is podman_timeout,
\* podman_error or fallback_error has success false.
C4_FailureTagsFail ==
    \A t \in Tasks : Returned(t) =>
        (tasks[t].result.method \in {"podman_timeout", "podman_error", "fallback_error"}
            => ~tasks[t].result.success)

C4_Witness ==
    \E t \in Tasks :
        /\ Returned(t)
        /\ tasks[t].result.method = "podman_timeout"
        /\ tasks[t].result.security_level = "persistent"

\* C5, as stated: on every path, the fallback included, success is true if
\* and only if the executed process exited with code zero and nothing failed
\* in the engine (timeout, spawn failure, unsupported language).
C5_SuccessIffExitZero ==
    \A t \in Tasks : Returned(t) =>
        (tasks[t].result.success <=>
            (tasks[t].fate.kind = "exited" /\ tasks[t].fate.rc = 0))

\* C6, as stated: the lookup-or-create of the session registry is
\* serialised: while a caller is creating the session container of a
\* language, no other caller is creating one for it and none is registered.
C6_LookupOrCreateSerialised ==
    \A t \in Tasks : tasks[t].pc = "per_create" =>
        /\ SessionId(tasks[t].language) \notin DOMAIN containers
        /\ \A u \in Tasks \ {t} :
              ~(tasks[u].pc = "per_create" /\ tasks[u].language = tasks[t].language)

\* C7, as stated: in every container tier, an execution that exceeded its
\* deadline returns method podman_timeout after a kill of its container
\* was issued.
C7_TimeoutKills ==
    \A t \in Tasks :
        (Returned(t) /\ tasks[t].fate.kind = "timeout"
            /\ tasks[t].result.security_level # "subprocess") =>
        /\ tasks[t].result.method = "podman_timeout"
        /\ RanIn(tasks[t]) \in tasks[t].kills

\* C8, as stated: a persistent-tier call that met an adapter failure
\* (create, write or run) returns the result of one isolation-tier run.
C8_PersistentFailureDowngrades ==
    \A t \in Tasks :
        (Returned(t) /\ tasks[t].tier = "persistent"
            /\ tasks[t].failedAt \in {"create", "write", "run"}) =>
        /\ tasks[t].downgraded
        /\ tasks[t].isoRuns = 1
        /\ tasks[t].result.security_level = "isolation"

\* C9: when cleanup() with no argument has returned, the registry is empty
\* and every session registered just before the call was handed to
\* _kill_container.
C9_CleanupAllKillsAndEmpties ==
    \A t \in Tasks :
        (tasks[t].pc = "done" /\ tasks[t].op = "cleanup" /\ tasks[t].arg = None) =>
        /\ DOMAIN containers = {}
        /\ tasks[t].snap \subseteq tasks[t].kills

C9_Witness ==
    \E t \in Tasks :
        /\ tasks[t].pc = "done" /\ tasks[t].op = "cleanup" /\ tasks[t].arg = None
        /\ Cardinality(tasks[t].snap) = 2
        /\ runtime # {}

\* C10: a cleanup() with no argument that directly follows another one
\* returns at once, issues no kill and changes neither the registry nor the
\* runtime nor the availability flag.
C10_SecondCleanupIsNoOp ==
    [][\A t \in Tasks :
          (lastOp = "cleanup_all" /\ tasks[t].pc = "idle"
              /\ tasks'[t].op = "cleanup" /\ tasks'[t].arg = None) =>
          /\ tasks'[t].pc = "done"
          /\ tasks'[t].kills = {}
          /\ containers' = containers
          /\ runtime' = runtime
          /\ podman_available' = podman_available]_vars

C10_Witness ==
    /\ lastOp = "cleanup_all"
    /\ tasks[MainTask].pc = "done"
    /\ tasks[MainTask].op = "cleanup"
    /\ tasks[MainTask].arg = None
    /\ runtime # {}

\* C11: session containers are created lazily.  The registry is empty after
\* construction; an entry for language L appears only in the create step of
\* a persistent-tier call for L; a persistent call for L starts a create
\* exactly when L is not registered (a registered session is reused, no
\* other container is started for it), and a create that the runtime
\* accepted registers the session; an entry disappears only in a cleanup.
C11_LazySessionLifecycle ==
    /\ containers = EmptyRegistry
    /\ [][ LET f == tasks[MainTask]
               g == tasks'[MainTask]
               calling == f.pc = "idle" /\ g.op = "execute" /\ g.tier = "persistent"
                             /\ podman_available /\ g.language \in DOMAIN base_images
           IN  /\ \A s \in (DOMAIN containers') \ (DOMAIN containers) :
                     /\ f.op = "execute" /\ f.tier = "persistent"
                     /\ f.pc = "per_create" /\ s = SessionId(f.language)
               /\ \A s \in runtime' \ runtime : s \in (DOMAIN containers') \ (DOMAIN containers)
               /\ calling => (g.pc = "per_create" <=> SessionId(g.language) \notin DOMAIN containers)
               /\ (calling /\ SessionId(g.language) \in DOMAIN containers) => g.pc = "per_write"
               /\ (f.pc = "per_create" /\ g.pc = "per_write") =>
                     SessionId(f.language) \in DOMAIN containers'
               /\ \A s \in (DOMAIN containers) \ (DOMAIN containers') : f.op = "cleanup"
         ]_vars

\* A persistent call found its session registered when it began, ran in it
\* and returned.
C11_Witness ==
    /\ Returned(MainTask)
    /\ tasks[MainTask].tier = "persistent"
    /\ SessionId(tasks[MainTask].language) \in tasks[MainTask].snap
    /\ tasks[MainTask].result.method = "podman"
    /\ tasks[MainTask].result.container_id = SessionId(tasks[MainTask].language)
    /\ ~tasks[MainTask].downgraded

\* C12: when the process has exited, every session container still in the
\* registry has been handed to a kill call by the exit path.
C12_ExitTearsDownSessions ==
    mainpc = "exited" =>
        \A s \in DOMAIN containers : s \in tasks[MainTask].kills

\* C13: when the probe found no container runtime, every execute call, of
\* any tier and language, runs in the subprocess fallback: no container is
\* started or killed, the session registry stays empty, and the result has
\* security_level subprocess and no container_id.
C13_UnavailableRoutesToFallback ==
    ~podman_available =>
        /\ containers = EmptyRegistry
        /\ runtime = {}
        /\ tasks[MainTask].pc \in {"idle", "done"}
        /\ Returned(MainTask) =>
              /\ tasks[MainTask].result.method \in {"fallback", "fallback_error"}
              /\ tasks[MainTask].result.security_level = "subprocess"
              /\ tasks[MainTask].result.container_id = None
              /\ tasks[MainTask].isoRuns = 0
              /\ tasks[MainTask].kills = {}

\* A persistent-tier call returned from the fallback with success.
C13_Witness ==
    /\ ~podman_available
    /\ Returned(MainTask)
    /\ tasks[MainTask].tier = "persistent"
    /\ tasks[MainTask].result.method = "fallback"
    /\ tasks[MainTask].result.success

\* The frame a call of execute_code begins with.
EntryFrame(f) ==
    [IdleFrame EXCEPT !.op = "execute", !.code = f.code, !.language = f.language,
                      !.tier = f.tier, !.snap = f.snap]

\* C14: with the runtime available, an execute call whose tier is not
\* isolation, persistent or development is dispatched exactly as the same
\* call with tier isolation: it runs once in a one-shot isolation container,
\* leaves the session registry alone, and its result reports security_level
\* isolation.
C14_UnknownTierIsIsolation ==
    LET f == tasks[MainTask]
    IN  (podman_available /\ f.op = "execute"
            /\ f.tier \notin {"isolation", "persistent", "development"}) =>
            /\ \A fsok \in BOOLEAN :
                  strategy(EntryFrame(f), fsok, containers) =
                     [strategy([EntryFrame(f) EXCEPT !.tier = "isolation"],
                               fsok, containers) EXCEPT !.tier = f.tier]
            /\ f.mode = "isolation"
            /\ f.isoRuns = 1
            /\ ~f.downgraded
            /\ DOMAIN containers = f.snap
            /\ f.pc = "done" =>
                  /\ f.result.security_level = "isolation"
                  /\ f.result.method = "podman" =>
                        f.result.container_id = ContainerName("isolation", f.language)

\* A call with the tier "bogus" ran in an isolation container and returned.
C14_Witness ==
    /\ podman_available
    /\ Returned(MainTask)
    /\ tasks[MainTask].tier = "bogus"
    /\ tasks[MainTask].result.method = "podman"
    /\ tasks[MainTask].result.security_level = "isolation"

\* C15: every returned ExecutionResult has security_level isolation,
\* persistent, development or subprocess, and it names the tier the call
\* ran in: subprocess in the fallback, isolation after a downgrade and for
\* an unknown tier, the requested tier otherwise, engine-level error results
\* included.
C15_SecurityLevelNamesTier ==
    LET f == tasks[MainTask]
    IN  Returned(MainTask) =>
            /\ f.result.security_level \in
                  {"isolation", "persistent", "development", "subprocess"}
            /\ ~podman_available => f.result.security_level = "subprocess"
            /\ (podman_available /\ f.isoRuns > 0) =>
                  f.result.security_level = "isolation"

\* C16: every execution that ended because its deadline expired returns a
\* result whose method tag ends in _timeout, in the container tiers and in
\* the subprocess fallback.
C16_TimeoutTagged ==
    (Returned(MainTask) /\ tasks[MainTask].fate.kind = "timeout") =>
        tasks[MainTask].result.method \in {"podman_timeout", "fallback_timeout"}

\* A create_file call whose filename is empty or missing, contains ".." or
\* starts with "/".
RefusedCreate(line) ==
    /\ line.kind = "object" /\ line.method = "tools/call"
    /\ line.params.shape = "object" /\ line.params.name = "create_file"
    /\ line.params.arguments.shape # "other"
    /\ LET filename == Get(line.params.arguments.filename, "")
       IN  /\ filename # NonString
           /\ \/ Falsy(filename)
              \/ Contains(filename, "..")
              \/ StartsWith(filename, "/")

\* C17: a create_file call whose filename contains ".." or starts with "/",
\* or is empty, changes no file and is answered with a text result that
\* begins with "Error:".
C17_RefusedCreateTouchesNothing ==
    [][ (stdin' # stdin /\ RefusedCreate(request'.line)) =>
            /\ files' = files
            /\ PrintedOneFor(request'.n)
            /\ LET r == stdout'[Len(stdout')]
               IN  /\ r.code = 0
                   /\ r.result.kind = "content"
                   /\ StartsWith(r.result.content[1].text, "Error:") ]_vars

\* After notes.txt was created, a call with the filename ../escape.txt was
\* served.
C17_Witness ==
    /\ request.handler = "none"
    /\ RefusedCreate(request.line)
    /\ request.line.params.arguments.filename = "../escape.txt"
    /\ files = {"notes.txt"}
    /\ Len(stdout) = 2

\* C18: a non-empty line that is not a JSON object (text that is not JSON,
\* or JSON of another type) is answered with error code -32700 and id null.
C18_NotAnObjectIsParseError ==
    (request.n > 0 /\ request.line.kind \in {"garbage", "scalar"}) =>
        /\ Len(stdout) > 0
        /\ stdout[Len(stdout)].line = request.n
        /\ stdout[Len(stdout)].code = -32700
        /\ stdout[Len(stdout)].id = None

\* C19: the response to a parsed request, a result or an error envelope,
\* carries the id of the request when the request has one, and the id 1 when
\* it has none, for initialize, tools/list, tools/call and unknown methods.
C19_ResponseCarriesRequestId ==
    (request.handler = "none" /\ request.line.kind = "object"
        /\ request.line.method # "notifications/initialized") =>
        /\ Len(stdout) > 0
        /\ stdout[Len(stdout)].line = request.n
        /\ stdout[Len(stdout)].id =
              IF request.line.id = Absent THEN "1" ELSE request.line.id

\* The lines whose dispatch raises: JSON that is not an object, and the
\* tools/call requests with no tool name, with params or arguments that are
\* not objects, or with a language or code that is not a string.
Raises(line) ==
    \/ line.kind = "scalar"
    \/ /\ line.kind = "object" /\ line.method = "tools/call"
       /\ \/ line.params.shape = "other"
          \/ Falsy(GetOrNone(line.params.name))
          \/ /\ line.params.name \in {"execute_code", "create_file"}
             /\ line.params.arguments.shape = "other"
          \/ /\ line.params.name = "execute_code"
             /\ \/ line.params.arguments.language \in {NonString, None}
                \/ line.params.arguments.code \in {NonString, None}

\* C20, as stated: a request whose dispatch raises is answered with the
\* -32603 envelope, carrying the id of the request when it has one and null
\* otherwise.
C20_InternalErrorIdOrNull ==
    (request.n > 0 /\ Raises(request.line)) =>
        /\ Len(stdout) > 0
        /\ stdout[Len(stdout)].line = request.n
        /\ stdout[Len(stdout)].code = -32603
        /\ stdout[Len(stdout)].id =
              IF request.line.kind = "object" /\ request.line.id # Absent
              THEN request.line.id ELSE None

\* C20, amended: a line whose dispatch raises, and no other, is answered with
\* the -32603 envelope; the envelope carries the id of the request when the
\* request is an object with an id (null included), the id 1 when it is an
\* object without one, and null when the line is not an object.
C20_InternalErrorIdOrOne ==
    (request.n > 0 /\ request.handler = "none" /\ ~Silent(request.line)) =>
        /\ Len(stdout) > 0
        /\ stdout[Len(stdout)].line = request.n
        /\ stdout[Len(stdout)].code = -32603 <=> Raises(request.line)
        /\ Raises(request.line) =>
              stdout[Len(stdout)].id =
                 IF request.line.kind # "object" THEN None
                 ELSE IF request.line.id = Absent THEN "1"
                 ELSE request.line.id

\* A tools/call request with no id and no tool name was answered with the
\* -32603 envelope and the id 1.
C20_Witness ==
    /\ request.n > 0
    /\ request.line.method = "tools/call"
    /\ request.line.id = Absent
    /\ Raises(request.line)
    /\ stdout[Len(stdout)].code = -32603
    /\ stdout[Len(stdout)].id = "1"

(***************************************************************************)
(* Properties of the main loop and of the router.                          *)
(***************************************************************************)
\* The response reports an error: an error envelope, or a result whose text
\* reports a failure or an expired deadline.
EndedInError(response) ==
    \/ response.code # 0
    \/ /\ response.result.kind = "content"
       /\ LET text == response.result.content[1].text
          IN  \/ Contains(text, "Error")
              \/ Contains(text, "timed out")
              \/ Contains(text, "Failed")
              \/ Contains(text, "Unknown")

\* C21: an error inside one request never stops the server.  The step that
\* prints a response reporting an error (parse error, unknown method, handler
\* exception, tool failure, expired deadline) leaves the loop of main()
\* running with no request suspended and the engine frame idle, so that the
\* next line can be read and served; and the line that is read after it is
\* answered like any other.
C21_ErrorsNeverStopServer ==
    /\ [][ (Len(stdout') = Len(stdout) + 1 /\ EndedInError(stdout'[Len(stdout')])) =>
              /\ mainpc' = "running"
              /\ request'.handler = "none"
              /\ tasks'[MainTask].pc = "idle" ]_vars
    /\ [][ ( /\ stdin' # stdin
             /\ Len(stdout) > 0
             /\ stdout[Len(stdout)].line = request.n
             /\ EndedInError(stdout[Len(stdout)])
             /\ ~Silent(request'.line) ) =>
              \/ request'.handler = "none" /\ PrintedOneFor(request'.n)
              \/ /\ request'.handler # "none" /\ tasks'[MainTask].pc # "idle"
                 /\ stdout' = stdout ]_vars
    /\ [][ (request.handler # "none" /\ request'.handler = "none") =>
              PrintedOneFor(request.n) ]_vars

\* Line 1 ran into the deadline of a container tier and was answered with the
\* timeout; line 2 was read and answered with a result.
C21_Witness ==
    /\ request.n = 2
    /\ request.handler = "none"
    /\ mainpc = "running"
    /\ Len(stdout) = 2
    /\ stdout[1].line = 1
    /\ stdout[1].code = 0
    /\ stdout[1].result.kind = "content"
    /\ Contains(stdout[1].result.content[1].text, "podman_timeout")
    /\ stdout[2].line = 2
    /\ stdout[2].code = 0

\* The line is an execute_code call whose language and code are strings (or
\* missing), so that handle_call_tool reaches its dispatch.
ExecuteCodeCall(line) ==
    /\ line.kind = "object" /\ line.method = "tools/call"
    /\ line.params.shape # "other"
    /\ line.params.name = "execute_code"
    /\ line.params.arguments.shape # "other"
    /\ line.params.arguments.language \notin {NonString, None}
    /\ line.params.arguments.code \notin {NonString, None}

\* The step that served the line handed it to the router: the router rejected
\* the text, or it logged the command in its history and called the handler.
HandedToRouter ==
    \/ history' # history
    \/ /\ Len(stdout') = Len(stdout) + 1
       /\ stdout'[Len(stdout')].result.kind = "content"
       /\ LET text == stdout'[Len(stdout')].result.content[1].text
          IN  \/ text = "Not a slash command. Use /help to see available commands."
              \/ text = "Empty command. Use /help for assistance."
              \/ StartsWith(text, "Unknown command: ")

\* The step that served the line answered with the text of the subprocess
\* path of `language`, and the router saw nothing.
DispatchedTo(language) ==
    /\ history' = history /\ stats' = stats
    /\ request'.handler = "none"
    /\ Len(stdout') = Len(stdout) + 1
    /\ stdout'[Len(stdout')].result.kind = "content"
    /\ \E o \in ToolOutcomes :
          stdout'[Len(stdout')].result.content[1].text =
             CASE language = "python" -> safe_execute_python_code(o)
               [] language \in {"javascript", "js"} -> safe_execute_javascript_code(o)
               [] language = "bash" -> safe_execute_bash_code(o)
               [] OTHER -> "<no such path>"

\* C22, as stated: execute_code hands the input to the router exactly when
\* language is "slash" or code begins with "/", and in every other case it
\* answers from the subprocess path of the given language.
C22_RouterExactlyOnSlash ==
    [][ (stdin' # stdin /\ ExecuteCodeCall(request'.line)) =>
          LET language == Get(request'.line.params.arguments.language, "")
              code == Get(request'.line.params.arguments.code, "")
              slash == language = "slash" \/ StartsWith(code, "/")
          IN  /\ HandedToRouter <=> slash
              /\ (~slash /\ language \in {"python", "javascript", "bash"}) =>
                    DispatchedTo(language) ]_vars

\* C22, amended: code that is empty or blank is answered with
\* "Error: No code provided" whatever the language; other code goes to the
\* router exactly when the lower-cased language is "slash" or the code begins
\* with "/"; in every other case the lower-cased language python, javascript,
\* js or bash is answered from its subprocess path, any other language with
\* "Unsupported language", and the router sees nothing.
C22_RouterOnSlashUnlessBlank ==
    [][ (stdin' # stdin /\ ExecuteCodeCall(request'.line)) =>
          LET language == Lower(Get(request'.line.params.arguments.language, ""))
              code == Get(request'.line.params.arguments.code, "")
              slash == language = "slash" \/ StartsWith(code, "/")
              text == stdout'[Len(stdout')].result.content[1].text
              answered == /\ request'.handler = "none"
                          /\ Len(stdout') = Len(stdout) + 1
                          /\ stdout'[Len(stdout')].result.kind = "content"
          IN  IF Strip(code) = ""
              THEN /\ ~HandedToRouter
                   /\ answered /\ text = "Error: No code provided"
              ELSE /\ HandedToRouter <=> slash
                   /\ ~slash =>
                        IF language \in {"python", "javascript", "js", "bash"}
                        THEN DispatchedTo(language)
                        ELSE /\ answered
                             /\ StartsWith(text, "Unsupported language: ")
                             /\ history' = history /\ stats' = stats ]_vars

\* Python code that begins with "/" went to the router, which logged the
\* command, and bash code that begins with a space and then "/" was answered
\* from the bash subprocess path.
C22_Witness ==
    /\ request.n = 2
    /\ request.handler = "none"
    /\ request.line = Request("tools/call", "7",
                              Params("execute_code", CodeArguments("bash", " /help")))
    /\ Len(history) = 1
    /\ history[1].command = "/help"
    /\ Len(stdout) = 2
    /\ stdout[2].result.kind = "content"
    /\ \E o \in ToolOutcomes :
          stdout[2].result.content[1].text = safe_execute_bash_code(o)

\* C31: every execute call returns an ExecutionResult in the end, even when
\* a container process it spawned never exits, because each runtime
\* invocation of the call is bounded by a deadline.
C31_ExecuteEventuallyReturns ==
    (tasks[MainTask].op = "execute" /\ tasks[MainTask].pc # "idle")
        ~> Returned(MainTask)

\* C32: cleanup of a named session that is registered issues the kill of
\* that container and of no other, and removes that entry and no other, the
\* other entries staying as they were; cleanup of a name that is not
\* registered returns at once: no kill, and registry and runtime as before.
C32_NamedCleanupRemovesOne ==
    [][ LET f == tasks[MainTask]
            g == tasks'[MainTask]
            called == f.pc = "idle" /\ g.op = "cleanup" /\ g.arg # None
            deleted == f.pc = "cl_del" /\ g.pc = "done"
        IN  /\ (called /\ g.arg \in DOMAIN containers) =>
                  /\ g.pc = "cl_del" /\ g.kills = {g.arg}
                  /\ containers' = containers
            /\ (called /\ g.arg \notin DOMAIN containers) =>
                  /\ g.pc = "done" /\ g.kills = {}
                  /\ containers' = containers /\ runtime' = runtime
            /\ deleted =>
                  /\ g.kills = {f.arg}
                  /\ DOMAIN containers' = (DOMAIN containers) \ {f.arg}
                  /\ \A s \in DOMAIN containers' : containers'[s] = containers[s]
                  /\ runtime' \in {runtime, runtime \ {f.arg}} ]_vars

\* The cleanup of one of two registered sessions has returned: its entry is
\* gone and the other one is still registered.
C32_Witness ==
    /\ tasks[MainTask].pc = "done"
    /\ tasks[MainTask].op = "cleanup"
    /\ tasks[MainTask].arg \in tasks[MainTask].snap
    /\ Cardinality(tasks[MainTask].snap) = 2
    /\ DOMAIN containers = tasks[MainTask].snap \ {tasks[MainTask].arg}
    /\ tasks[MainTask].kills = {tasks[MainTask].arg}

\* The restrictions among the options of a container: the options without
\* the ones that say how the container is run (detached, removed at exit)
\* and without the bind mount of the code file.
Restrictions(cmd) == cmd \ {"--rm", "-d", "-v code_file:/code/code_file:ro"}

\* C30: the session container of the persistent tier is started with exactly
\* the restrictions of the one-shot container of the isolation tier: no
\* network, the memory and CPU caps, a read-only root, the size-limited
\* tmpfs, no-new-privileges, no capabilities and a non-root user; the only
\* difference is the bind mount of the code file.
C30_SessionRestrictedLikeIsolation ==
    \A t \in Tasks :
        tasks[t].session_cmd # {} =>
            Restrictions(tasks[t].session_cmd) = Restrictions(isolated_podman_cmd)

\* C25: the six statistics counters of the router never decrease, whatever
\* the step: a command that is dispatched, one that is rejected, one whose
\* handler fails, or any step of the engine.
C25_CountersNeverDecrease ==
    [][ /\ DOMAIN stats' = DOMAIN stats
        /\ \A k \in DOMAIN stats : stats'[k] >= stats[k] ]_vars

\* An unknown command was rejected, then /quantum was dispatched and its
\* handler failed: both counters of the second command were raised.
C25_Witness ==
    /\ request.n = 2
    /\ request.handler = "none"
    /\ Len(stdout) = 2
    /\ stdout[1].result.kind = "content"
    /\ StartsWith(stdout[1].result.content[1].text, "Unknown command: ")
    /\ stdout[2].result.kind = "content"
    /\ StartsWith(stdout[2].result.content[1].text, "Error executing command quantum")
    /\ stats.commands_executed = 1
    /\ stats.quantum_tests_run = 1

\* The cap on the history that C26 asks for: 1000 entries in the claim, one
\* entry here, so that the lines main() reads can go past it.
history_cap == 1

\* C26: the command history is bounded: however many commands were
\* dispatched, it never holds more entries than the cap.
C26_HistoryBounded == Len(history) <= history_cap

\* The handler that the step that served a slash command ran, told from
\* the request it left suspended or from the text it answered with.
HandlerRun ==
    IF request'.handler # "none" THEN request'.handler
    ELSE LET text == stdout'[Len(stdout')].result.content[1].text
         IN  CASE StartsWith(text, "Usage: /run ")
                    \/ StartsWith(text, "Standard Execution Result") -> "run"
               [] StartsWith(text, "Usage: /container ")
                    \/ StartsWith(text, "Invalid security level") -> "container"
               [] StartsWith(text, "Usage: /secure_run ") -> "secure_run"
               [] StartsWith(text, "Usage: /dev_run ") -> "dev_run"
               [] StartsWith(text, "Usage: /quantum ")
                    \/ StartsWith(text, "Quantum Sorting")
                    \/ StartsWith(text, "Quantum Analysis")
                    \/ StartsWith(text, "Error executing command quantum:") -> "quantum"
               [] StartsWith(text, "Usage: /quantum_container ")
                    \/ StartsWith(text, "Quantum Container") -> "quantum_container"
               [] StartsWith(text, "Usage: /benchmark ")
                    \/ StartsWith(text, "Performance Benchmark") -> "benchmark"
               [] StartsWith(text, "Podman System Status") -> "podman_status"
               [] StartsWith(text, "Claude-Jester Enhanced System Status") -> "status"
               [] StartsWith(text, "**/")
                    \/ StartsWith(text, "Claude-Jester Enhanced Commands") -> "help"
               [] OTHER -> "none"

\* C27: no alias is a command name, every alias names a registered command
\* (one hop), and a slash command whose first word is an alias, or a name or
\* an alias in any letter case, runs the handler of the lower-case name.
C27_AliasesResolveInOneHop ==
    /\ [](/\ commands \cap DOMAIN aliases = {}
          /\ \A a \in DOMAIN aliases : aliases[a] \in commands)
    /\ [][ (stdin' # stdin /\ ExecuteCodeCall(request'.line)
              /\ history' # history) =>
             LET word == Lower(Split(SubSeq(history'[Len(history')].command, 2,
                                  Len(history'[Len(history')].command)))[1])
             IN  /\ word \in commands \cup DOMAIN aliases
                 /\ word \in commands => HandlerRun = word
                 /\ word \in DOMAIN aliases => HandlerRun = aliases[word] ]_vars

\* /q (an alias of quantum) and then /HELP (help in upper case) were
\* dispatched, and /HELP run was answered by the help handler.
C27_Witness ==
    /\ request.n = 2
    /\ request.handler = "none"
    /\ Len(history) = 2
    /\ history[1].command = "/q prime"
    /\ history[2].command = "/HELP run"
    /\ stats.quantum_tests_run = 1
    /\ stdout[2].result.content[1].text = "**/run**"

\* The history entry is a /secure_run command, under its name or an alias.
IsSecureRun(entry) ==
    Lower(Split(SubSeq(entry.command, 2, Len(entry.command)))[1])
        \in {"secure_run", "secure", "isolated"}

\* The head of the text /secure_run answers with when the analyzer returned
\* `issues`.
AnalysisHead(issues) ==
    "Maximum Security Execution:\n**Security Analysis:**\n"
    \o (IF issues # <<>>
        THEN "Potential Security Issues Detected:\n" \o IssueLines(issues)
        ELSE "No obvious security issues detected\n")
    \o "**Container:** "

C29_SecureRunAlwaysRuns ==
    [][ LET dispatched ==
              /\ stdin' # stdin /\ history' # history
              /\ IsSecureRun(history'[Len(history')])
              /\ Len(history'[Len(history')].args) >= 2
            code == Join(Tail(history'[Len(history')].args))
            found == \E k \in 1..Len(dangerous_patterns) :
                        Contains(code, dangerous_patterns[k][1])
        IN  /\ dispatched =>
                /\ request'.handler = "secure_run"
                /\ tasks'[MainTask].op = "execute"
                /\ tasks'[MainTask].tier = "isolation"
                /\ tasks'[MainTask].code = code
                /\ podman_available => tasks'[MainTask].mode = "isolation"
                /\ stats'.security_violations_prevented =
                      stats.security_violations_prevented + (IF found THEN 1 ELSE 0)
            /\ ~dispatched =>
                  stats'.security_violations_prevented =
                      stats.security_violations_prevented ]_vars

\* /secure was served with code that has no finding, then /secure_run with
\* code that has one: both ran, and the counter was raised once.
C29_Witness ==
    /\ request.n = 2
    /\ request.handler = "none"
    /\ Len(history) = 2
    /\ history[1].command = "/secure python print(1)"
    /\ history[2].command = "/secure_run python import os"
    /\ stats.security_violations_prevented = 1
    /\ stats.containers_used = 2
    /\ lastOp = "execute"
    /\ Len(stdout) = 2
    /\ Contains(stdout[1].result.content[1].text, "**Status:** ")
    /\ Contains(stdout[2].result.content[1].text, "**Status:** ")

\* The text the router is given names no registered command: it does not
\* start with "/", or it has no word after the "/", or its first word, in
\* lower case and after the aliases, is not a registered name.
NamesNoCommand(text) ==
    \/ ~StartsWith(text, "/")
    \/ Split(SubSeq(text, 2, Len(text))) = <<>>
    \/ LET word == Lower(Split(SubSeq(text, 2, Len(text)))[1])
       IN  word \notin commands /\ word \notin DOMAIN aliases

\* C37: process_command, given text that does not start with "/", a "/"
\* alone or an unknown command name, answers with a message that points at
\* /help, runs no handler, and leaves the counters, the history and the
\* session registry as they were.
C37_RejectedTextChangesNothing ==
    [][ ( /\ stdin' # stdin
          /\ ExecuteCodeCall(request'.line)
          /\ LET language == Get(request'.line.params.arguments.language, "")
                 code == Get(request'.line.params.arguments.code, "")
             IN  /\ Strip(code) # ""
                 /\ Lower(language) = "slash" \/ StartsWith(code, "/")
                 /\ NamesNoCommand(code) )
        => /\ request'.handler = "none"
           /\ Len(stdout') = Len(stdout) + 1
           /\ stdout'[Len(stdout')].code = 0
           /\ stdout'[Len(stdout')].result.kind = "content"
           /\ LET text == stdout'[Len(stdout')].result.content[1].text
              IN  /\ \/ text = "Not a slash command. Use /help to see available commands."
                     \/ text = "Empty command. Use /help for assistance."
                     \/ /\ StartsWith(text, "Unknown command: ")
                        /\ Contains(text, ". Use /help to see available commands.")
           /\ stats' = stats /\ history' = history
           /\ containers' = containers /\ runtime' = runtime
           /\ tasks' = tasks ]_vars

\* After one dispatched command the text "/bogus" was rejected: the history
\* and the counter still show the one command.
C37_Witness ==
    /\ Len(stdout) = 2
    /\ request.n = 2
    /\ request.handler = "none"
    /\ stdout[2].result.kind = "content"
    /\ stdout[2].result.content[1].text =
          "Unknown command: bogus. Use /help to see available commands."
    /\ Len(history) = 1
    /\ stats.commands_executed = 1

\* C38: the responses are written in the order of their requests and one at
\* a time: a line is read only when no request is under way, and every
\* response is appended whole, as one line, for the line read last.
C38_ResponsesInRequestOrder ==
    /\ [](\A i, j \in 1..Len(stdout) : i < j => stdout[i].line < stdout[j].line)
    /\ [][ /\ stdin' # stdin =>
                /\ request.handler = "none"
                /\ tasks[MainTask].pc = "idle"
                /\ request'.n = request.n + 1
           /\ stdout' # stdout =>
                /\ Len(stdout') = Len(stdout) + 1
                /\ SubSeq(stdout', 1, Len(stdout)) = stdout
                /\ stdout'[Len(stdout')].line = request'.n
                /\ request'.handler = "none"
           /\ (request.handler # "none" /\ request'.handler = "none") =>
                Len(stdout') = Len(stdout) + 1 ]_vars

\* Two commands were answered, a call of the engine among them: the first
\* line of the output answers the first line of the input.
C38_Witness ==
    /\ Len(stdout) = 2
    /\ stdout[1].line = 1 /\ stdout[2].line = 2
    /\ Len(history) = 2
    /\ history[1].command = "/run python print(1)"
    /\ lastOp = "execute"
    /\ request.handler = "none"

\* The step read a line that the router dispatches: an execute_code call
\* whose text goes to the router and names a registered command.
Dispatched ==
    /\ stdin' # stdin
    /\ ExecuteCodeCall(request'.line)
    /\ LET language == Get(request'.line.params.arguments.language, "")
           code == Get(request'.line.params.arguments.code, "")
       IN  /\ Strip(code) # ""
           /\ Lower(language) = "slash" \/ StartsWith(code, "/")
           /\ ~NamesNoCommand(code)

\* C39: commands_executed is the length of the history in every state; a
\* dispatched command appends one entry, its text, to the history and adds
\* one to the counter, also when its handler raises; and no other step
\* changes the history or the counter.
C39_CounterIsHistoryLength ==
    /\ [](stats.commands_executed = Len(history))
    /\ [][ /\ Dispatched =>
                /\ Len(history') = Len(history) + 1
                /\ SubSeq(history', 1, Len(history)) = history
                /\ history'[Len(history')].command =
                      request'.line.params.arguments.code
                /\ stats'.commands_executed = stats.commands_executed + 1
           /\ ~Dispatched =>
                /\ history' = history
                /\ stats'.commands_executed = stats.commands_executed ]_vars

\* The handler of the second of two dispatched commands raised: both are in
\* the history and in the counter.
C39_Witness ==
    /\ Len(stdout) = 2
    /\ stdout[2].result.kind = "content"
    /\ stdout[2].result.content[1].text =
          "Error executing command quantum: float division by zero"
    /\ Len(history) = 2
    /\ stats.commands_executed = 2

(***************************************************************************)
(* Properties of the inspector.                                            *)
(***************************************************************************)
\* The messages of the calls that were made since the last clear while
\* recording was on, in call order.
RecordedSinceClear ==
    LET since == SubSeq(log_calls, cleared_at + 1, Len(log_calls))
        kept == SelectSeq(since, LAMBDA c : c.recorded)
    IN  [k \in 1..Len(kept) |-> kept[k].message]

\* The last k elements of a sequence.
LastOf(seq, k) == SubSeq(seq, Len(seq) - k + 1, Len(seq))

\* C23: after any sequence of log, clear and toggle_recording the buffer is
\* the most recent min(n, cap) of the n events recorded since the last clear,
\* in the order of their log calls; it is never longer than the cap, and on
\* overflow the oldest event is the one that goes.
C23_BufferIsMostRecent ==
    LET recorded == RecordedSinceClear
        kept == IF Len(recorded) < max_messages THEN Len(recorded) ELSE max_messages
    IN  /\ Len(messages) <= max_messages
        /\ messages = LastOf(recorded, kept)

\* More events were recorded than the buffer holds: the buffer is full and
\* the first event is no longer in it.
C23_Witness ==
    /\ Len(RecordedSinceClear) > max_messages
    /\ Len(messages) = max_messages
    /\ messages[1].timestamp = RecordedSinceClear[1].timestamp + 1

\* C33: every call of log_message delivers the envelope of its event to every
\* websocket that is connected at the call, and a websocket whose send fails
\* is removed from connected_clients while the others stay in it.
C33_LogDeliversToEveryClient ==
    [][ Len(log_calls') = Len(log_calls) + 1 =>
           \E failing \in SUBSET connected_clients :
               _broadcast_to_clients(log_calls'[Len(log_calls')].message, failing)
      ]_vars

C36_WrapperLogsBothAndPassesThrough ==
    [][ LET n == Len(log_calls)
            last == log_calls'[n + 1].message
        IN  /\ (wrapped.pc = "idle" /\ wrapped'.pc = "handler") =>
                  /\ Len(log_calls') = n + 1
                  /\ SubSeq(log_calls', 1, n) = log_calls
                  /\ last.direction = "inbound"
                  /\ last.method = wrapped'.method
                  /\ last.execution_time = NoTime /\ last.error = None
                  /\ passed' = passed
            /\ (wrapped.pc = "handler" /\ wrapped'.pc = "resumed") =>
                  /\ log_calls' = log_calls
                  /\ passed' = passed
            /\ (wrapped.pc = "resumed" /\ wrapped'.pc = "idle") =>
                  /\ Len(log_calls') = n + 1
                  /\ SubSeq(log_calls', 1, n) = log_calls
                  /\ last.direction = "outbound"
                  /\ last.method = wrapped.method
                  /\ last.execution_time \in MeasuredTimes
                  /\ last.error = IF wrapped.outcome.kind = "raise"
                                  THEN "ValueError: bad" ELSE None
                  /\ passed' = wrapped.outcome
            /\ wrapped'.pc # wrapped.pc =>
                  <<wrapped.pc, wrapped'.pc>> \in
                      { <<"idle", "handler">>, <<"handler", "resumed">>,
                        <<"resumed", "idle">> } ]_vars

\* A wrapped handler raised: the inbound event and the outbound event with
\* the exception's text are the last two calls of log_message, and the
\* caller got the exception.
C36_Witness ==
    /\ wrapped.pc = "idle"
    /\ passed.kind = "raise"
    /\ Len(log_calls) >= 2
    /\ log_calls[Len(log_calls) - 1].message.direction = "inbound"
    /\ log_calls[Len(log_calls)].message.direction = "outbound"
    /\ log_calls[Len(log_calls)].message.error = "ValueError: bad"
    /\ log_calls[Len(log_calls)].message.execution_time = 15

RECURSIVE SumOfCounts(_, _)
SumOfCounts(stats_, methods) ==
    IF methods = {} THEN 0
    ELSE LET m == CHOOSE m \in methods : TRUE
         IN  stats_[m].count + SumOfCounts(stats_, methods \ {m})

\* C40: after any sequence of log, clear and toggle_recording, error_count is
\* at most total_messages, the buffer is no longer than max_messages and no
\* longer than total_messages, and the per-method counts add up to at most
\* total_messages; a clear empties the buffer and leaves the metrics, the
\* recording flag and the connected websockets as they were.
C40_MetricsBoundBufferAndClearKeepsThem ==
    /\ [](LET pm == performance_metrics
          IN  /\ pm.error_count <= pm.total_messages
              /\ Len(messages) <= max_messages
              /\ Len(messages) <= pm.total_messages
              /\ SumOfCounts(pm.method_stats, DOMAIN pm.method_stats)
                    <= pm.total_messages)
    /\ [][ cleared_at' # cleared_at =>
              /\ messages' = <<>>
              /\ performance_metrics' = performance_metrics
              /\ is_recording' = is_recording
              /\ connected_clients' = connected_clients ]_vars

\* A buffer with recorded events was cleared while a websocket was connected
\* and recording was off: the buffer is empty and the metrics still count
\* the events.
C40_Witness ==
    /\ messages = <<>>
    /\ cleared_at = 2
    /\ performance_metrics.total_messages = 2
    /\ performance_metrics.error_count = 1
    /\ "tools/call" \in DOMAIN performance_metrics.method_stats
    /\ ~is_recording
    /\ connected_clients = {"ws1"}

RECURSIVE SumOfTimes(_)
SumOfTimes(calls) ==
    IF calls = <<>> THEN 0
    ELSE calls[1].message.execution_time + SumOfTimes(Tail(calls))

\* C35: for each method m of method_stats, over the events recorded with
\* method m: count is their number, errors the number of those with an
\* error, total_time the sum of their execution times, and avg_time is
\* total_time divided by count.
C35_MethodStatsAreAggregates ==
    \A m \in DOMAIN performance_metrics.method_stats :
        LET entry == performance_metrics.method_stats[m]
            events == SelectSeq(log_calls,
                                LAMBDA c : c.recorded /\ c.message.method = m)
            timed == SelectSeq(events,
                               LAMBDA c : c.message.execution_time # NoTime)
        IN  /\ entry.count = Len(events)
            /\ entry.errors = Len(SelectSeq(events, LAMBDA c : c.message.error # None))
            /\ entry.total_time = SumOfTimes(timed)
            /\ entry.avg_time.num * entry.count = entry.total_time * entry.avg_time.den

\* C24: after any sequence of log calls, some with and some without an
\* execution time, avg_response_time is the arithmetic mean of the execution
\* times that were passed to log: their sum divided by their number.
C24_AverageIsMean ==
    LET timed == SelectSeq(log_calls, LAMBDA c : c.message.execution_time # NoTime)
    IN  timed # <<>> =>
           performance_metrics.avg_response_time.num * Len(timed)
              = SumOfTimes(timed) * performance_metrics.avg_response_time.den

====
